---- MODULE Spec2Model ----
(***************************************************************************)
(* Model of SecureFileManager (src/src/index.ts, second listing, lines     *)
(* 555-1800): path validation, the admission counter, backup snapshots and *)
(* the gated file operations.  Strings are TLA+ strings handled with Len,  *)
(* SubSeq and \o; paths follow the POSIX rules of Node's path module.      *)
(***************************************************************************)
EXTENDS Integers, Sequences, FiniteSets, TLC

(***************************************************************************)
(* String helpers (JavaScript String.prototype methods).                   *)
(***************************************************************************)
CharAt(s, i) == SubSeq(s, i, i)

StartsWith(s, p) == Len(p) <= Len(s) /\ SubSeq(s, 1, Len(p)) = p

EndsWith(s, p) == Len(p) <= Len(s) /\ SubSeq(s, Len(s) - Len(p) + 1, Len(s)) = p

Includes(s, p) ==
    \E i \in 1..(Len(s) - Len(p) + 1) : SubSeq(s, i, i + Len(p) - 1) = p

\* String.prototype.toLowerCase on the ASCII letters.
LowerOf(c) ==
    CASE c = "A" -> "a" [] c = "B" -> "b" [] c = "C" -> "c" [] c = "D" -> "d"
      [] c = "E" -> "e" [] c = "F" -> "f" [] c = "G" -> "g" [] c = "H" -> "h"
      [] c = "I" -> "i" [] c = "J" -> "j" [] c = "K" -> "k" [] c = "L" -> "l"
      [] c = "M" -> "m" [] c = "N" -> "n" [] c = "O" -> "o" [] c = "P" -> "p"
      [] c = "Q" -> "q" [] c = "R" -> "r" [] c = "S" -> "s" [] c = "T" -> "t"
      [] c = "U" -> "u" [] c = "V" -> "v" [] c = "W" -> "w" [] c = "X" -> "x"
      [] c = "Y" -> "y" [] c = "Z" -> "z" [] OTHER -> c

RECURSIVE toLowerCase(_)
toLowerCase(s) ==
    IF Len(s) = 0 THEN ""
    ELSE LowerOf(CharAt(s, 1)) \o toLowerCase(SubSeq(s, 2, Len(s)))

\* Index of the last occurrence of the one-character string c in s, 0 if none.
RECURSIVE LastIndexOf(_, _)
LastIndexOf(s, c) ==
    IF Len(s) = 0 THEN 0
    ELSE IF CharAt(s, Len(s)) = c THEN Len(s)
    ELSE LastIndexOf(SubSeq(s, 1, Len(s) - 1), c)

(***************************************************************************)
(* Node's path module, POSIX flavour.                                      *)
(***************************************************************************)
\* The segments of s between "/" separators, empty segments included.
RECURSIVE SplitSegs(_, _, _)
SplitSegs(s, i, cur) ==
    IF i > Len(s) THEN <<cur>>
    ELSE IF CharAt(s, i) = "/" THEN <<cur>> \o SplitSegs(s, i + 1, "")
    ELSE SplitSegs(s, i + 1, cur \o CharAt(s, i))

RECURSIVE JoinSegs(_)
JoinSegs(segs) ==
    IF Len(segs) = 0 THEN ""
    ELSE IF Len(segs) = 1 THEN segs[1]
    ELSE segs[1] \o "/" \o JoinSegs(Tail(segs))

\* normalizeString: fold the segments left to right, dropping "" and ".",
\* letting ".." remove the previous real segment, and keeping a leading ".."
\* only when the path may climb above its start.
RECURSIVE FoldSegs(_, _, _)
FoldSegs(segs, acc, allowAboveRoot) ==
    IF Len(segs) = 0 THEN acc
    ELSE LET s == Head(segs)
             rest == Tail(segs)
         IN  IF s = "" \/ s = "." THEN FoldSegs(rest, acc, allowAboveRoot)
             ELSE IF s = ".." THEN
                 IF Len(acc) > 0 /\ acc[Len(acc)] # ".."
                 THEN FoldSegs(rest, SubSeq(acc, 1, Len(acc) - 1), allowAboveRoot)
                 ELSE IF allowAboveRoot
                 THEN FoldSegs(rest, Append(acc, ".."), allowAboveRoot)
                 ELSE FoldSegs(rest, acc, allowAboveRoot)
             ELSE FoldSegs(rest, Append(acc, s), allowAboveRoot)

normalizeString(p, allowAboveRoot) ==
    JoinSegs(FoldSegs(SplitSegs(p, 1, ""), <<>>, allowAboveRoot))

IsAbsolute(p) == Len(p) > 0 /\ CharAt(p, 1) = "/"

\* path.normalize
PathNormalize(p) ==
    IF Len(p) = 0 THEN "."
    ELSE LET abs == IsAbsolute(p)
             trailing == CharAt(p, Len(p)) = "/"
             n == normalizeString(p, ~abs)
         IN  IF Len(n) = 0
             THEN (IF abs THEN "/" ELSE IF trailing THEN "./" ELSE ".")
             ELSE (IF abs THEN "/" ELSE "") \o n \o (IF trailing THEN "/" ELSE "")

\* path.resolve(base, p) for an absolute base.
PathResolve(base, p) ==
    LET joined == IF IsAbsolute(p) THEN p
                  ELSE IF Len(p) = 0 THEN base
                  ELSE base \o "/" \o p
    IN  "/" \o normalizeString(joined, FALSE)

\* path.relative(from, to) for resolved paths with to equal to from or below it,
\* the only case in which the program calls it.
PathRelative(from, to) ==
    IF to = from THEN "" ELSE SubSeq(to, Len(from) + 2, Len(to))

RECURSIVE StripTrailingSlashes(_)
StripTrailingSlashes(p) ==
    IF Len(p) > 1 /\ CharAt(p, Len(p)) = "/"
    THEN StripTrailingSlashes(SubSeq(p, 1, Len(p) - 1))
    ELSE p

\* path.basename
PathBasename(p) ==
    LET q == StripTrailingSlashes(p)
    IN  IF q = "/" THEN ""
        ELSE SubSeq(q, LastIndexOf(q, "/") + 1, Len(q))

\* path.dirname
PathDirname(p) ==
    LET q == StripTrailingSlashes(p)
        k == LastIndexOf(q, "/")
    IN  IF k = 0 THEN "."
        ELSE IF k = 1 THEN "/"
        ELSE StripTrailingSlashes(SubSeq(q, 1, k - 1))

\* path.extname: from the last "." of the base name to its end; "" when there is
\* no ".", when the only "." is the first character, or when the name is "..".
PathExtname(p) ==
    LET b == PathBasename(p)
        k == LastIndexOf(b, ".")
    IN  IF k = 0 \/ k = 1 THEN ""
        ELSE IF b = ".." THEN ""
        ELSE SubSeq(b, k, Len(b))

(***************************************************************************)
(* SecurityConfig: the default configuration built by SourceCodeMCPServer. *)
(***************************************************************************)
\* config.allowedDirectory, and the working directory it is resolved against.
allowedDirectory == "/ws"

allowedExtensions ==
    { ".js", ".ts", ".jsx", ".tsx", ".py", ".cpp", ".cc", ".cxx", ".c", ".h", ".hpp",
      ".java", ".cs", ".php", ".rb", ".go", ".rs", ".swift", ".kt", ".scala",
      ".html", ".css", ".scss", ".less", ".json", ".xml", ".yaml", ".yml",
      ".md", ".txt", ".rst", ".adoc",
      ".sh", ".bat", ".ps1", ".sql", ".r", ".matlab", ".pl",
      ".template", ".example", ".sample", ".config",
      "" }

blacklistedPaths ==
    << "..", ".git/", "node_modules/", ".env.", "secrets/", ".DS_Store", "Thumbs.db" >>

\* The fields of the configuration that validatePath reads besides the blacklist.
DefaultConfig ==
    [allowedDirectory |-> allowedDirectory, allowedExtensions |-> allowedExtensions]

\* SecureFileManager constructor: path.resolve(path.normalize(allowedDirectory)).
normalizedAllowedDir == PathResolve("/", PathNormalize(allowedDirectory))

isFileExtensionAllowed(fileName) ==
    IF allowedExtensions = {} THEN TRUE
    ELSE toLowerCase(PathExtname(fileName)) \in allowedExtensions

\* Mutant of BlacklistEntryMatches: the ".env." entry has no allowed suffixes.
BlacklistEntryMatches_noSuffixes(blacklisted, relativePath) ==
    LET fileName == PathBasename(relativePath)
    IN  IF blacklisted = ".env."
        THEN StartsWith(fileName, ".env.")
        ELSE Includes(relativePath, blacklisted)

\* One entry of the blacklist applied to a root-relative path.
BlacklistEntryMatches(blacklisted, relativePath) ==
    LET fileName == PathBasename(relativePath)
    IN  IF blacklisted = ".env."
        THEN /\ StartsWith(fileName, ".env.")
             /\ ~EndsWith(fileName, ".template")
             /\ ~EndsWith(fileName, ".example")
             /\ ~EndsWith(fileName, ".sample")
        ELSE Includes(relativePath, blacklisted)

isPathBlacklisted(relativePath) ==
    \E i \in 1..Len(blacklistedPaths) :
        BlacklistEntryMatches(blacklistedPaths[i], relativePath)

\* Mutant of IsInsideRoot: the prefix test without the path separator.
IsInsideRoot_prefixOnly(resolvedPath) ==
    StartsWith(resolvedPath, normalizedAllowedDir)

\* The first check of validatePath: the resolved path is the root or lies below it.
IsInsideRoot(resolvedPath) ==
    \/ StartsWith(resolvedPath, normalizedAllowedDir \o "/")
    \/ resolvedPath = normalizedAllowedDir

\* validatePath: the error it throws ("none" when it returns) and the resolved path.
validatePath(filePath, isFileOperation) ==
    LET normalizedPath == PathNormalize(filePath)
        resolvedPath == PathResolve(normalizedAllowedDir, normalizedPath)
    IN  IF ~IsInsideRoot(resolvedPath)
        THEN [err |-> "OutsideRoot", path |-> resolvedPath]
        ELSE IF /\ filePath # "" /\ filePath # "."
                /\ isPathBlacklisted(PathRelative(normalizedAllowedDir, resolvedPath))
        THEN [err |-> "Blacklisted", path |-> resolvedPath]
        ELSE IF isFileOperation /\ ~isFileExtensionAllowed(PathBasename(resolvedPath))
        THEN [err |-> "ExtensionNotAllowed", path |-> resolvedPath]
        ELSE [err |-> "none", path |-> resolvedPath]

\* validatePath of a manager constructed with the given allowedDirectory and
\* allowedExtensions (the blacklist being the default one).
validatePathOf(config, filePath, isFileOperation) ==
    LET root == PathResolve("/", PathNormalize(config.allowedDirectory))
        normalizedPath == PathNormalize(filePath)
        resolvedPath == PathResolve(root, normalizedPath)
        ext == toLowerCase(PathExtname(PathBasename(resolvedPath)))
    IN  IF ~(StartsWith(resolvedPath, root \o "/") \/ resolvedPath = root)
        THEN [err |-> "OutsideRoot", path |-> resolvedPath]
        ELSE IF /\ filePath # "" /\ filePath # "."
                /\ isPathBlacklisted(PathRelative(root, resolvedPath))
        THEN [err |-> "Blacklisted", path |-> resolvedPath]
        ELSE IF /\ isFileOperation
                /\ config.allowedExtensions # {}
                /\ ext \notin config.allowedExtensions
        THEN [err |-> "ExtensionNotAllowed", path |-> resolvedPath]
        ELSE [err |-> "none", path |-> resolvedPath]

(***************************************************************************)
(* Bounds and configuration values of the model.                           *)
(***************************************************************************)
\* Largest config.maxConcurrentOperations a run is constructed with.
MaxLimit == 2

\* Calls issued in one run.
NumOps == 2

\* config.maxFileSize in bytes (10 MB in the default configuration).
maxFileSize == 3

\* Symbolic links followed in resolving one path (the system gives up with ELOOP
\* after 40).
MaxLinkHops == 2

\* Largest reading of the millisecond clock.
MaxClock == 1

OpIds == 1..NumOps

(***************************************************************************)
(* State.                                                                  *)
(*   maxConcurrentOperations  config.maxConcurrentOperations, set once at  *)
(*             construction                                                *)
(*   activeOperations  SecureFileManager.activeOperations                  *)
(*   fs        the files and symbolic links of the host, by absolute path  *)
(*   dirs      the directories that exist                                  *)
(*   backups   the files under <root>/.backups, by file name               *)
(*   now       the last reading of the clock (new Date())                  *)
(*   ops       the calls: arguments, position (the fs call awaited),       *)
(*             locals, and the outcome once settled                        *)
(*   freed     an admitted call has settled since the last call arrived    *)
(*   vPath, vIsFile, vOut   a single validatePath evaluation               *)
(*   vConfig                the SecurityConfig that evaluation runs under  *)
(***************************************************************************)
VARIABLES maxConcurrentOperations, activeOperations, fs, dirs, backups, now, ops,
          freed, vConfig, vPath, vIsFile, vOut

vars == <<maxConcurrentOperations, activeOperations, fs, dirs, backups, now, ops,
          freed, vConfig, vPath, vIsFile, vOut>>

gateVars == <<activeOperations, ops, freed>>
diskVars == <<fs, dirs, backups, now>>
restVars == <<maxConcurrentOperations, vConfig, vPath, vIsFile, vOut>>

(***************************************************************************)
(* The file system.                                                        *)
(***************************************************************************)
\* A path holds nothing, a regular file, a regular file without read permission
\* (kind "locked"), or a symbolic link.
NoNode == [kind |-> "none", data |-> ""]
FileNode(d) == [kind |-> "file", data |-> d]
LockedNode(d) == [kind |-> "locked", data |-> d]
LinkNode(t) == [kind |-> "link", data |-> t]

NodeAt(p) == IF p \in DOMAIN fs THEN fs[p] ELSE NoNode

\* The path a following call (access, stat, readFile, writeFile, copyFile,
\* createWriteStream) acts on: a symbolic link is replaced by its target.
RealPath(p) == IF NodeAt(p).kind = "link" THEN NodeAt(p).data ELSE p

\* fs.realpath(p): every symbolic link on the way is followed, those of the
\* directories above the last name included; a chain of more than hops links
\* is left unresolved.
RECURSIVE Canonical(_, _)
Canonical(p, hops) ==
    IF p = "/" \/ p = "" THEN "/"
    ELSE LET parent == Canonical(PathDirname(p), hops)
             q == (IF parent = "/" THEN "" ELSE parent) \o "/" \o PathBasename(p)
         IN  IF NodeAt(q).kind = "link" /\ hops > 0
             THEN Canonical(NodeAt(q).data, hops - 1)
             ELSE q

\* fs.access(p, F_OK) and fs.stat(p) succeed.
FileExists(p) == NodeAt(RealPath(p)).kind \in {"file", "locked"}

\* fs.access(p, R_OK), fs.readFile(p) and fs.copyFile(p, ...) succeed.
CanRead(p) == NodeAt(RealPath(p)).kind = "file"

FileData(p) == NodeAt(RealPath(p)).data

PutNode(f, p, n) == [q \in (DOMAIN f) \cup {p} |-> IF q = p THEN n ELSE f[q]]

\* The node at p once data has been written to it: an existing file keeps its
\* permissions, a new file is readable.
Written(p, data) ==
    [kind |-> IF NodeAt(p).kind = "locked" THEN "locked" ELSE "file", data |-> data]

\* fs.mkdir(dir, {recursive: true}): dir and every missing ancestor.
RECURSIVE WithAncestors(_)
WithAncestors(d) ==
    IF d = "/" \/ d = "." THEN {d} ELSE {d} \cup WithAncestors(PathDirname(d))

\* Buffer.byteLength(s, 'utf-8'); every content of the model is ASCII.
byteLength(s) == Len(s)

\* String.prototype.indexOf(p, from), 0-based, -1 when absent; a start beyond the
\* end is clamped to the length.
IndexOf(s, p, from) ==
    LET start == IF from > Len(s) THEN Len(s) ELSE from
        hits == {i \in start..(Len(s) - Len(p)) : SubSeq(s, i + 1, i + Len(p)) = p}
    IN  IF hits = {} THEN -1 ELSE CHOOSE i \in hits : \A j \in hits : i <= j

\* new Date().toISOString() for a clock reading of t milliseconds (t < 10).
toISOString(t) == "1970-01-01T00:00:00.00" \o ToString(t) \o "Z"

\* String.prototype.replace(/[:.]/g, '-')
RECURSIVE ReplaceColonDot(_)
ReplaceColonDot(s) ==
    IF Len(s) = 0 THEN ""
    ELSE (IF CharAt(s, 1) \in {":", "."} THEN "-" ELSE CharAt(s, 1))
         \o ReplaceColonDot(SubSeq(s, 2, Len(s)))

\* createBackup's file name for filePath at clock reading t.
backupFileName(filePath, t) ==
    PathBasename(filePath) \o "." \o ReplaceColonDot(toISOString(t)) \o ".backup"

backupDir == normalizedAllowedDir \o "/" \o ".backups"

(***************************************************************************)
(* Calls and their records.                                                *)
(***************************************************************************)
Call(m, filePath, newPath, content, oldContent, createBackup, chunks) ==
    [m |-> m, filePath |-> filePath, newPath |-> newPath, content |-> content,
     oldContent |-> oldContent, createBackup |-> createBackup, chunks |-> chunks]

NoCall == Call("none", "", "", "", "", FALSE, <<>>)

\* The locals of searchInFiles / searchInDirectorySafe and of listFiles.
\* (enumerated is the history of the search: the real paths of the directories
\* whose entries it has read, in order.)
NoWalk == [pattern |-> "", recursive |-> FALSE, ignoreCase |-> FALSE, contextLines |-> 0,
           currentDir |-> "", directoriesToProcess |-> <<>>, processedPaths |-> {},
           processedCount |-> 0, entries |-> <<>>, results |-> <<>>,
           enumerated |-> <<>>]

IdleOp == [call |-> NoCall, pc |-> "idle", res |-> "", data |-> "",
           safePath |-> "", safeNew |-> "", upd |-> "", bname |-> "", i |-> 0, k |-> 0,
           opened |-> FALSE, j |-> 0, walk |-> NoWalk]

\* A settled call: its outcome and, for readFile, the content returned.
Settled(c, r, d) == [IdleOp EXCEPT !.call = c, !.pc = "done", !.res = r, !.data = d]

InFlight(o) == ops[o].pc \notin {"idle", "done"}

\* Calls are numbered in the order in which they arrive.
CanCall(o) == ops[o].pc = "idle" /\ \A q \in OpIds : q < o => ops[q].pc # "idle"

\* Mutant of Acquire: the increment is forgotten.
Acquire_none(n) == n

\* Mutant of Release: a finally block that does not decrement.
Release_skip(n) == n

\* activeOperations++ and the finally block's activeOperations--.
Acquire(n) == n + 1

Release(n) == n - 1

\* Mutants of GateFull: the comparison off by one, either way.
GateFull_late == activeOperations > maxConcurrentOperations

GateFull_early == activeOperations + 1 >= maxConcurrentOperations

\* The admission test at the head of every gated method.
GateFull == activeOperations >= maxConcurrentOperations

\* Mutant of Reject: the counter is incremented before the admission test.
Reject_countsSlot(o, c) ==
    /\ ops' = [ops EXCEPT ![o] = Settled(c, "ResourceExhausted", "")]
    /\ activeOperations' = activeOperations + 1
    /\ freed' = FALSE

\* Rejected at the gate: nothing was acquired, nothing is released.
Reject(o, c) ==
    /\ ops' = [ops EXCEPT ![o] = Settled(c, "ResourceExhausted", "")]
    /\ UNCHANGED activeOperations
    /\ freed' = FALSE

\* Admitted, then thrown before the first await: catch and finally run at once.
ThrowSync(o, c, err) ==
    /\ ops' = [ops EXCEPT ![o] = Settled(c, err, "")]
    /\ activeOperations' = Release(Acquire(activeOperations))
    /\ freed' = TRUE

\* Admitted and suspended at its first await.
Suspend(o, c, pc, safePath, safeNew) ==
    /\ ops' = [ops EXCEPT ![o] = [IdleOp EXCEPT !.call = c, !.pc = pc,
                                   !.safePath = safePath, !.safeNew = safeNew]]
    /\ activeOperations' = Acquire(activeOperations)
    /\ freed' = FALSE

\* Mutant of Settle: the call settles without its finally block.
Settle_leak(o, r, d) ==
    /\ ops' = [ops EXCEPT ![o] = Settled(@.call, r, d)]
    /\ UNCHANGED activeOperations
    /\ freed' = TRUE

\* A suspended call settles: its result and the finally block.
Settle(o, r, d) ==
    /\ ops' = [ops EXCEPT ![o] = Settled(@.call, r, d)]
    /\ activeOperations' = Release(activeOperations)
    /\ freed' = TRUE

\* A suspended call moves on to its next await.
Goto(o, pc) ==
    /\ ops' = [ops EXCEPT ![o].pc = pc]
    /\ UNCHANGED <<activeOperations, freed>>

(***************************************************************************)
(* readFile.  Each action is the completion of one awaited fs call together *)
(* with the synchronous code that follows it, up to the next await; the    *)
(* entry action is the synchronous head of the method.                     *)
(***************************************************************************)
\* Mutant of readFile: the path is validated before the admission test.
readFile_validateFirst(o, filePath) ==
    /\ CanCall(o)
    /\ LET c == Call("readFile", filePath, "", "", "", FALSE, <<>>)
           v == validatePath(filePath, TRUE)
       IN  IF v.err # "none"
           THEN /\ ops' = [ops EXCEPT ![o] = Settled(c, v.err, "")]
                /\ UNCHANGED <<activeOperations, freed>>
           ELSE IF GateFull THEN Reject(o, c)
           ELSE Suspend(o, c, "r_access", v.path, "")
    /\ UNCHANGED <<diskVars, restVars>>

readFile(o, filePath) ==
    /\ CanCall(o)
    /\ LET c == Call("readFile", filePath, "", "", "", FALSE, <<>>)
           v == validatePath(filePath, TRUE)
       IN  IF GateFull THEN Reject(o, c)
           ELSE IF v.err # "none" THEN ThrowSync(o, c, v.err)
           ELSE Suspend(o, c, "r_access", v.path, "")
    /\ UNCHANGED <<diskVars, restVars>>

\* Mutant of readFile_access: every failure of the access check is reported as a
\* missing file.
readFile_access_anyError(o) ==
    /\ ops[o].pc = "r_access"
    /\ IF ~CanRead(ops[o].safePath) THEN Settle(o, "NotFound", "")
       ELSE Goto(o, "r_stat")
    /\ UNCHANGED <<diskVars, restVars>>

\* await fs.access(safePath, R_OK): ENOENT becomes "does not exist", any other
\* error is rethrown and wrapped as "Failed to read file".
readFile_access(o) ==
    /\ ops[o].pc = "r_access"
    /\ IF ~FileExists(ops[o].safePath) THEN Settle(o, "NotFound", "")
       ELSE IF ~CanRead(ops[o].safePath) THEN Settle(o, "Unknown", "")
       ELSE Goto(o, "r_stat")
    /\ UNCHANGED <<diskVars, restVars>>

readFile_stat_atLimit(o) ==
    /\ ops[o].pc = "r_stat"
    /\ IF ~FileExists(ops[o].safePath) THEN Settle(o, "Unknown", "")
       ELSE IF byteLength(FileData(ops[o].safePath)) >= maxFileSize
       THEN Settle(o, "SizeExceeded", "")
       ELSE Goto(o, "r_read")
    /\ UNCHANGED <<diskVars, restVars>>

\* await fs.stat(safePath)
readFile_stat(o) ==
    /\ ops[o].pc = "r_stat"
    /\ IF ~FileExists(ops[o].safePath) THEN Settle(o, "Unknown", "")
       ELSE IF byteLength(FileData(ops[o].safePath)) > maxFileSize
       THEN Settle(o, "SizeExceeded", "")
       ELSE Goto(o, "r_read")
    /\ UNCHANGED <<diskVars, restVars>>

\* await fs.readFile(safePath, 'utf-8')
readFile_read(o) ==
    /\ ops[o].pc = "r_read"
    /\ IF ~CanRead(ops[o].safePath) THEN Settle(o, "Unknown", "")
       ELSE Settle(o, "ok", FileData(ops[o].safePath))
    /\ UNCHANGED <<diskVars, restVars>>

(***************************************************************************)
(* createBackup, called from writeFile, partialWriteFile, deleteFile and   *)
(* renameFile.                                                             *)
(***************************************************************************)
\* Where the caller resumes after createBackup returns.
AfterBackup(m) ==
    CASE m = "writeFile" -> "w_mkdir"
      [] m = "partialWriteFile" -> "p_write"
      [] m = "deleteFile" -> "d_unlink"
      [] m = "renameFile" -> "n_mkdir"

\* Mutant of BackupFailed: every caller goes on as if the backup had been taken.
BackupFailed_ignored(o) == Goto(o, AfterBackup(ops[o].call.m))

\* createBackup throws: writeFile swallows the error in its empty catch and goes
\* on to the write, the other callers fail.
BackupFailed(o) ==
    IF ops[o].call.m = "writeFile" THEN Goto(o, "w_mkdir")
    ELSE Settle(o, "Unknown", "")

\* await fs.mkdir(backupDir, {recursive: true}), which fails when something that is
\* not a directory holds that name; then the name is computed from the clock.
createBackup_mkdir(o) ==
    /\ ops[o].pc = "b_mkdir"
    /\ IF NodeAt(backupDir).kind # "none"
       THEN /\ BackupFailed(o)
            /\ UNCHANGED <<dirs, now>>
       ELSE /\ dirs' = dirs \cup WithAncestors(backupDir)
            /\ \E t \in now..MaxClock :
                  /\ t <= now + 1
                  /\ now' = t
                  /\ ops' = [ops EXCEPT ![o].pc = "b_copy",
                                        ![o].bname = backupFileName(ops[o].safePath, t)]
            /\ UNCHANGED <<activeOperations, freed>>
    /\ UNCHANGED <<fs, backups, restVars>>

\* Mutant of createBackup_copyFile: the backup is written from the content that
\* the caller read earlier and not from the file.
createBackup_copyFile_fromMemory(o) ==
    /\ ops[o].pc = "b_copy"
    /\ IF CanRead(ops[o].safePath)
       THEN /\ backups' = PutNode(backups, ops[o].bname, ops[o].data)
            /\ Goto(o, AfterBackup(ops[o].call.m))
       ELSE /\ UNCHANGED backups
            /\ BackupFailed(o)
    /\ UNCHANGED <<fs, dirs, now, restVars>>

\* await fs.copyFile(filePath, backupPath), which fails when the file is gone or
\* cannot be read.
createBackup_copyFile(o) ==
    /\ ops[o].pc = "b_copy"
    /\ IF CanRead(ops[o].safePath)
       THEN /\ backups' = PutNode(backups, ops[o].bname, FileData(ops[o].safePath))
            /\ Goto(o, AfterBackup(ops[o].call.m))
       ELSE /\ UNCHANGED backups
            /\ BackupFailed(o)
    /\ UNCHANGED <<fs, dirs, now, restVars>>

(***************************************************************************)
(* writeFile                                                               *)
(***************************************************************************)
\* Mutant of writeFile: content of exactly maxFileSize bytes is refused.
writeFile_atLimit(o, filePath, content, createBackup) ==
    /\ CanCall(o)
    /\ LET c == Call("writeFile", filePath, "", content, "", createBackup, <<>>)
           v == validatePath(filePath, TRUE)
       IN  IF GateFull THEN Reject(o, c)
           ELSE IF v.err # "none" THEN ThrowSync(o, c, v.err)
           ELSE IF byteLength(content) >= maxFileSize
           THEN ThrowSync(o, c, "SizeExceeded")
           ELSE Suspend(o, c, IF createBackup THEN "w_access" ELSE "w_mkdir", v.path, "")
    /\ UNCHANGED <<diskVars, restVars>>

writeFile(o, filePath, content, createBackup) ==
    /\ CanCall(o)
    /\ LET c == Call("writeFile", filePath, "", content, "", createBackup, <<>>)
           v == validatePath(filePath, TRUE)
       IN  IF GateFull THEN Reject(o, c)
           ELSE IF v.err # "none" THEN ThrowSync(o, c, v.err)
           ELSE IF byteLength(content) > maxFileSize
           THEN ThrowSync(o, c, "SizeExceeded")
           ELSE Suspend(o, c, IF createBackup THEN "w_access" ELSE "w_mkdir", v.path, "")
    /\ UNCHANGED <<diskVars, restVars>>

\* await fs.access(safePath, F_OK) inside the backup try block
writeFile_access(o) ==
    /\ ops[o].pc = "w_access"
    /\ IF FileExists(ops[o].safePath) THEN Goto(o, "b_mkdir") ELSE Goto(o, "w_mkdir")
    /\ UNCHANGED <<diskVars, restVars>>

\* await fs.mkdir(path.dirname(safePath), {recursive: true})
writeFile_mkdir(o) ==
    /\ ops[o].pc = "w_mkdir"
    /\ dirs' = dirs \cup WithAncestors(PathDirname(ops[o].safePath))
    /\ Goto(o, "w_write")
    /\ UNCHANGED <<fs, backups, now, restVars>>

\* Mutant of writeFile_write: the content is appended to what the file holds.
writeFile_write_append(o) ==
    /\ ops[o].pc = "w_write"
    /\ fs' = PutNode(fs, RealPath(ops[o].safePath),
                     Written(RealPath(ops[o].safePath),
                             FileData(ops[o].safePath) \o ops[o].call.content))
    /\ Settle(o, "ok", "")
    /\ UNCHANGED <<dirs, backups, now, restVars>>

\* await fs.writeFile(safePath, content, 'utf-8')
writeFile_write(o) ==
    /\ ops[o].pc = "w_write"
    /\ fs' = PutNode(fs, RealPath(ops[o].safePath),
                     Written(RealPath(ops[o].safePath), ops[o].call.content))
    /\ Settle(o, "ok", "")
    /\ UNCHANGED <<dirs, backups, now, restVars>>

(***************************************************************************)
(* partialWriteFile                                                        *)
(***************************************************************************)
partialWriteFile(o, filePath, oldContent, newContent) ==
    /\ CanCall(o)
    /\ LET c == Call("partialWriteFile", filePath, "", newContent, oldContent, FALSE, <<>>)
           v == validatePath(filePath, TRUE)
       IN  IF GateFull THEN Reject(o, c)
           ELSE IF v.err # "none" THEN ThrowSync(o, c, v.err)
           ELSE Suspend(o, c, "p_read", v.path, "")
    /\ UNCHANGED <<diskVars, restVars>>

\* Mutant of SecondFrom: the search for a second occurrence starts past the first.
SecondFrom_pastMatch(oldIndex, oldContent) == oldIndex + Len(oldContent)

\* Where the search for a second occurrence starts: one character after the start
\* of the first.
SecondFrom(oldIndex, oldContent) == oldIndex + 1

\* Mutant of partialWriteFile_read: the size check comes before the uniqueness
\* check.
partialWriteFile_read_sizeFirst(o) ==
    /\ ops[o].pc = "p_read"
    /\ IF ~CanRead(ops[o].safePath) THEN Settle(o, "Unknown", "")
       ELSE LET currentContent == FileData(ops[o].safePath)
                oldContent == ops[o].call.oldContent
                oldIndex == IndexOf(currentContent, oldContent, 0)
                secondOccurrence ==
                    IndexOf(currentContent, oldContent, SecondFrom(oldIndex, oldContent))
                updatedContent ==
                    SubSeq(currentContent, 1, oldIndex) \o ops[o].call.content
                    \o SubSeq(currentContent, oldIndex + Len(oldContent) + 1,
                              Len(currentContent))
            IN  IF oldIndex = -1 THEN Settle(o, "NoMatch", "")
                ELSE IF byteLength(updatedContent) > maxFileSize
                THEN Settle(o, "SizeExceeded", "")
                ELSE IF secondOccurrence # -1 THEN Settle(o, "AmbiguousMatch", "")
                ELSE /\ ops' = [ops EXCEPT ![o].pc = "b_mkdir", ![o].upd = updatedContent,
                                           ![o].data = currentContent]
                     /\ UNCHANGED <<activeOperations, freed>>
    /\ UNCHANGED <<diskVars, restVars>>

\* await fs.readFile(safePath, 'utf-8'), then the match, uniqueness and size checks
partialWriteFile_read(o) ==
    /\ ops[o].pc = "p_read"
    /\ IF ~CanRead(ops[o].safePath) THEN Settle(o, "Unknown", "")
       ELSE LET currentContent == FileData(ops[o].safePath)
                oldContent == ops[o].call.oldContent
                oldIndex == IndexOf(currentContent, oldContent, 0)
                secondOccurrence ==
                    IndexOf(currentContent, oldContent, SecondFrom(oldIndex, oldContent))
                updatedContent ==
                    SubSeq(currentContent, 1, oldIndex) \o ops[o].call.content
                    \o SubSeq(currentContent, oldIndex + Len(oldContent) + 1,
                              Len(currentContent))
            IN  IF oldIndex = -1 THEN Settle(o, "NoMatch", "")
                ELSE IF secondOccurrence # -1 THEN Settle(o, "AmbiguousMatch", "")
                ELSE IF byteLength(updatedContent) > maxFileSize
                THEN Settle(o, "SizeExceeded", "")
                ELSE /\ ops' = [ops EXCEPT ![o].pc = "b_mkdir", ![o].upd = updatedContent,
                                           ![o].data = currentContent]
                     /\ UNCHANGED <<activeOperations, freed>>
    /\ UNCHANGED <<diskVars, restVars>>

\* Mutant of partialWriteFile_write: the replacement is applied to the content the
\* file holds at the time of the write.
partialWriteFile_write_reread(o) ==
    /\ ops[o].pc = "p_write"
    /\ LET currentContent == FileData(ops[o].safePath)
           oldContent == ops[o].call.oldContent
           oldIndex == IndexOf(currentContent, oldContent, 0)
           merged == IF oldIndex = -1 THEN currentContent
                     ELSE SubSeq(currentContent, 1, oldIndex) \o ops[o].call.content
                          \o SubSeq(currentContent, oldIndex + Len(oldContent) + 1,
                                    Len(currentContent))
       IN  fs' = PutNode(fs, RealPath(ops[o].safePath),
                         Written(RealPath(ops[o].safePath), merged))
    /\ Settle(o, "ok", "")
    /\ UNCHANGED <<dirs, backups, now, restVars>>

\* await fs.writeFile(safePath, updatedContent, 'utf-8')
partialWriteFile_write(o) ==
    /\ ops[o].pc = "p_write"
    /\ fs' = PutNode(fs, RealPath(ops[o].safePath),
                     Written(RealPath(ops[o].safePath), ops[o].upd))
    /\ Settle(o, "ok", "")
    /\ UNCHANGED <<dirs, backups, now, restVars>>

(***************************************************************************)
(* deleteFile                                                              *)
(***************************************************************************)
deleteFile(o, filePath, createBackup) ==
    /\ CanCall(o)
    /\ LET c == Call("deleteFile", filePath, "", "", "", createBackup, <<>>)
           v == validatePath(filePath, TRUE)
       IN  IF GateFull THEN Reject(o, c)
           ELSE IF v.err # "none" THEN ThrowSync(o, c, v.err)
           ELSE Suspend(o, c, "d_access", v.path, "")
    /\ UNCHANGED <<diskVars, restVars>>

\* await fs.access(safePath, F_OK)
deleteFile_access(o) ==
    /\ ops[o].pc = "d_access"
    /\ IF ~FileExists(ops[o].safePath) THEN Settle(o, "NotFound", "")
       ELSE IF ops[o].call.createBackup THEN Goto(o, "b_mkdir")
       ELSE Goto(o, "d_unlink")
    /\ UNCHANGED <<diskVars, restVars>>

\* await fs.unlink(safePath): removes the entry itself, a link included
deleteFile_unlink(o) ==
    /\ ops[o].pc = "d_unlink"
    /\ IF NodeAt(ops[o].safePath).kind = "none"
       THEN /\ UNCHANGED fs
            /\ Settle(o, "Unknown", "")
       ELSE /\ fs' = PutNode(fs, ops[o].safePath, NoNode)
            /\ Settle(o, "ok", "")
    /\ UNCHANGED <<dirs, backups, now, restVars>>

(***************************************************************************)
(* renameFile                                                              *)
(***************************************************************************)
renameFile(o, oldPath, newPath, createBackup) ==
    /\ CanCall(o)
    /\ LET c == Call("renameFile", oldPath, newPath, "", "", createBackup, <<>>)
           vOld == validatePath(oldPath, TRUE)
           vNew == validatePath(newPath, TRUE)
       IN  IF GateFull THEN Reject(o, c)
           ELSE IF vOld.err # "none" THEN ThrowSync(o, c, vOld.err)
           ELSE IF vNew.err # "none" THEN ThrowSync(o, c, vNew.err)
           ELSE Suspend(o, c, "n_accessOld", vOld.path, vNew.path)
    /\ UNCHANGED <<diskVars, restVars>>

\* await fs.access(safeOldPath, F_OK)
renameFile_accessOld(o) ==
    /\ ops[o].pc = "n_accessOld"
    /\ IF ~FileExists(ops[o].safePath) THEN Settle(o, "NotFound", "")
       ELSE Goto(o, "n_accessNew")
    /\ UNCHANGED <<diskVars, restVars>>

\* Mutant of renameFile_accessNew: an existing destination is not refused.
renameFile_accessNew_overwrite(o) ==
    /\ ops[o].pc = "n_accessNew"
    /\ IF ops[o].call.createBackup THEN Goto(o, "b_mkdir") ELSE Goto(o, "n_mkdir")
    /\ UNCHANGED <<diskVars, restVars>>

\* await fs.access(safeNewPath, F_OK)
renameFile_accessNew(o) ==
    /\ ops[o].pc = "n_accessNew"
    /\ IF FileExists(ops[o].safeNew) THEN Settle(o, "AlreadyExists", "")
       ELSE IF ops[o].call.createBackup THEN Goto(o, "b_mkdir")
       ELSE Goto(o, "n_mkdir")
    /\ UNCHANGED <<diskVars, restVars>>

\* await fs.mkdir(path.dirname(safeNewPath), {recursive: true})
renameFile_mkdir(o) ==
    /\ ops[o].pc = "n_mkdir"
    /\ dirs' = dirs \cup WithAncestors(PathDirname(ops[o].safeNew))
    /\ Goto(o, "n_rename")
    /\ UNCHANGED <<fs, backups, now, restVars>>

\* await fs.rename(safeOldPath, safeNewPath): moves the entry itself and replaces
\* whatever the destination holds
renameFile_rename(o) ==
    /\ ops[o].pc = "n_rename"
    /\ IF NodeAt(ops[o].safePath).kind = "none"
       THEN /\ UNCHANGED fs
            /\ Settle(o, "Unknown", "")
       ELSE /\ fs' = IF ops[o].safeNew = ops[o].safePath THEN fs
                     ELSE PutNode(PutNode(fs, ops[o].safeNew, NodeAt(ops[o].safePath)),
                                  ops[o].safePath, NoNode)
            /\ Settle(o, "ok", "")
    /\ UNCHANGED <<dirs, backups, now, restVars>>

(***************************************************************************)
(* streamWriteFile                                                         *)
(***************************************************************************)
\* Mutant of streamWriteFile: the parent directory is created before the path is
\* validated.
streamWriteFile_mkdirFirst(o, filePath, chunks) ==
    /\ CanCall(o)
    /\ LET c == Call("streamWriteFile", filePath, "", "", "", FALSE, chunks)
           v == validatePath(filePath, TRUE)
       IN  IF GateFull THEN Reject(o, c) /\ UNCHANGED dirs
           ELSE /\ dirs' = dirs \cup WithAncestors(PathDirname(v.path))
                /\ IF v.err # "none" THEN ThrowSync(o, c, v.err)
                   ELSE Suspend(o, c, "s_pipe", v.path, "")
    /\ UNCHANGED <<fs, backups, now, restVars>>

streamWriteFile(o, filePath, chunks) ==
    /\ CanCall(o)
    /\ LET c == Call("streamWriteFile", filePath, "", "", "", FALSE, chunks)
           v == validatePath(filePath, TRUE)
       IN  IF GateFull THEN Reject(o, c)
           ELSE IF v.err # "none" THEN ThrowSync(o, c, v.err)
           ELSE Suspend(o, c, "s_mkdir", v.path, "")
    /\ UNCHANGED <<diskVars, restVars>>

\* await fs.mkdir(path.dirname(safePath), {recursive: true})
streamWriteFile_mkdir(o) ==
    /\ ops[o].pc = "s_mkdir"
    /\ dirs' = dirs \cup WithAncestors(PathDirname(ops[o].safePath))
    /\ Goto(o, "s_pipe")
    /\ UNCHANGED <<fs, backups, now, restVars>>

\* The first n chunks, one after the other.
RECURSIVE ConcatChunks(_, _)
ConcatChunks(chunks, n) ==
    IF n = 0 THEN "" ELSE ConcatChunks(chunks, n - 1) \o chunks[n]

\* The zero byte that fills the gap when a write lands beyond the end of a file
\* (written as the character 0 in the model).
ZeroByte == "0"

RECURSIVE Zeros(_)
Zeros(n) == IF n <= 0 THEN "" ELSE ZeroByte \o Zeros(n - 1)

\* Mutant of Appended: the chunks are put at the end of whatever the file holds.
Appended_atEnd(files, target, chunks, from, to) ==
    IF target \in DOMAIN files /\ files[target].kind \in {"file", "locked"}
    THEN PutNode(files, target,
                 Written(target, files[target].data
                                 \o SubSeq(ConcatChunks(chunks, to),
                                           Len(ConcatChunks(chunks, from)) + 1,
                                           Len(ConcatChunks(chunks, to)))))
    ELSE files

\* The file after chunks from + 1 .. to have been written through the stream's
\* open descriptor (nothing if the file was unlinked meanwhile).  The descriptor
\* has its own position, the number of bytes the stream has written so far: the
\* chunks replace what the file holds from there on, and a file that another call
\* has truncated meanwhile is filled up with zero bytes to that position.
Appended(files, target, chunks, from, to) ==
    IF target \in DOMAIN files /\ files[target].kind \in {"file", "locked"}
    THEN LET all == ConcatChunks(chunks, to)
             pos == Len(ConcatChunks(chunks, from))
             old == files[target].data
             padded == old \o Zeros(pos - Len(old))
         IN  PutNode(files, target,
                     Written(target, SubSeq(padded, 1, pos)
                                     \o SubSeq(all, pos + 1, Len(all))
                                     \o SubSeq(padded, Len(all) + 1, Len(padded))))
    ELSE files

\* The pipeline runs three streams at once.  ops[o].i chunks have passed
\* monitorStream and ops[o].k is bytesWritten; ops[o].opened tells whether
\* createWriteStream's open has completed and ops[o].j how many of the passed
\* chunks the write stream has written to the file.  Chunks handed to the write
\* stream before the open completes, or while a write is under way, wait in its
\* buffer.
\*
\* createWriteStream(safePath) opens the file with flag 'w': created or truncated.
\* A stream with no chunk ends here.
streamWriteFile_open(o) ==
    /\ ops[o].pc = "s_pipe"
    /\ ~ops[o].opened
    /\ fs' = PutNode(fs, RealPath(ops[o].safePath), Written(RealPath(ops[o].safePath), ""))
    /\ IF Len(ops[o].call.chunks) = 0 THEN Settle(o, "ok", "")
       ELSE /\ ops' = [ops EXCEPT ![o].opened = TRUE]
            /\ UNCHANGED <<activeOperations, freed>>
    /\ UNCHANGED <<dirs, backups, now, restVars>>

\* Mutant of PipelineDestroyed: the chunk that exceeds the limit reaches the file
\* with those before it.
PipelineDestroyed_withChunk(o, files) ==
    { Appended(IF ops[o].opened THEN files
               ELSE PutNode(files, RealPath(ops[o].safePath),
                            Written(RealPath(ops[o].safePath), "")),
               RealPath(ops[o].safePath), ops[o].call.chunks, ops[o].j, ops[o].i + 1) }

\* The files the destroyed pipeline can leave.  The write stream is destroyed
\* with the chunks in its buffer discarded: a pending open still completes
\* (the file is created or truncated, nothing is written), and a write that is
\* under way completes, with the chunks that were buffered when it was issued.
PipelineDestroyed(o, files) ==
    LET target == RealPath(ops[o].safePath)
        chunks == ops[o].call.chunks
    IN  IF ~ops[o].opened THEN { PutNode(files, target, Written(target, "")) }
        ELSE IF ops[o].j = ops[o].i THEN { files }
        ELSE { Appended(files, target, chunks, ops[o].j, n) :
                   n \in (ops[o].j + 1) .. ops[o].i }

\* One chunk through monitorStream: over the limit the transform fails and the
\* pipeline is destroyed, otherwise the chunk is handed to the write stream.
streamWriteFile_chunk(o) ==
    /\ ops[o].pc = "s_pipe"
    /\ ops[o].i < Len(ops[o].call.chunks)
    /\ LET chunks == ops[o].call.chunks
           i == ops[o].i + 1
           bytesWritten == ops[o].k + byteLength(chunks[i])
       IN  IF bytesWritten > maxFileSize
           THEN /\ fs' \in PipelineDestroyed(o, fs)
                /\ Settle(o, "SizeExceeded", "")
           ELSE /\ UNCHANGED fs
                /\ ops' = [ops EXCEPT ![o].k = bytesWritten, ![o].i = i]
                /\ UNCHANGED <<activeOperations, freed>>
    /\ UNCHANGED <<dirs, backups, now, restVars>>

\* The write stream writes the next passed chunk through the open descriptor
\* (lost if the file was unlinked meanwhile); after the last chunk of the stream the
\* pipeline resolves.
streamWriteFile_flush(o) ==
    /\ ops[o].pc = "s_pipe"
    /\ ops[o].opened
    /\ ops[o].j < ops[o].i
    /\ fs' = Appended(fs, RealPath(ops[o].safePath), ops[o].call.chunks,
                      ops[o].j, ops[o].j + 1)
    /\ IF ops[o].j + 1 = Len(ops[o].call.chunks) THEN Settle(o, "ok", "")
       ELSE /\ ops' = [ops EXCEPT ![o].j = @ + 1]
            /\ UNCHANGED <<activeOperations, freed>>
    /\ UNCHANGED <<dirs, backups, now, restVars>>

(***************************************************************************)
(* listFiles and searchInFiles: the directory walker.  Neither method tests *)
(* or touches activeOperations.                                            *)
(***************************************************************************)
\* Mutant of Enter: the walker methods pass through the admission gate.
Enter_gated(o, c, pc, safePath, w) ==
    IF GateFull THEN Reject(o, c)
    ELSE /\ ops' = [ops EXCEPT ![o] = [IdleOp EXCEPT !.call = c, !.pc = pc,
                                        !.safePath = safePath, !.walk = w]]
         /\ activeOperations' = Acquire(activeOperations)
         /\ freed' = FALSE

\* The head of listFiles and searchInFiles up to the first await: no admission
\* test, no increment.
Enter(o, c, pc, safePath, w) ==
    /\ ops' = [ops EXCEPT ![o] = [IdleOp EXCEPT !.call = c, !.pc = pc,
                                   !.safePath = safePath, !.walk = w]]
    /\ UNCHANGED <<activeOperations, freed>>

\* A walker call settles with its result list; there is no finally block.
Return(o, c, r, results) ==
    /\ ops' = [ops EXCEPT ![o] = [IdleOp EXCEPT !.call = c, !.pc = "done", !.res = r,
                                   !.walk = [NoWalk EXCEPT !.results = results]]]
    /\ UNCHANGED <<activeOperations, freed>>

\* The directory a walker call starts from: the root itself for "" and ".",
\* validatePath as a directory operation otherwise.
WalkStart(dirPath) ==
    IF dirPath = "" \/ dirPath = "."
    THEN [err |-> "none", path |-> normalizedAllowedDir]
    ELSE validatePath(dirPath, FALSE)

\* path.join(dir, name)
PathJoin(dir, name) == PathNormalize(dir \o "/" \o name)

\* The order in which readdir delivers a set of names.
RECURSIVE SeqOf(_)
SeqOf(S) ==
    IF S = {} THEN <<>>
    ELSE LET x == CHOOSE y \in S : TRUE IN <<x>> \o SeqOf(S \ {x})

\* fs.readdir(dir, {withFileTypes: true}): the names of the entries for which
\* isFile() holds (a symbolic link is neither a file nor a directory entry) and of
\* those for which isDirectory() holds.
FileEntries(dir) ==
    LET real == Canonical(dir, MaxLinkHops)
    IN  {PathBasename(p) : p \in {q \in DOMAIN fs : /\ fs[q].kind \in {"file", "locked"}
                                                     /\ PathDirname(q) = real}}
        \cup (IF real = backupDir THEN DOMAIN backups ELSE {})

DirEntries(dir) ==
    LET real == Canonical(dir, MaxLinkHops)
    IN  {PathBasename(d) : d \in {e \in dirs : e # real /\ PathDirname(e) = real}}

\* fs.readdir(dir) succeeds: dir is, or leads through links to, a directory.
IsDirectory(dir) == Canonical(dir, MaxLinkHops) \in dirs

\* fs.stat and fs.readFile on an absolute path, the files under .backups included.
InBackupDir(p) ==
    /\ Canonical(PathDirname(p), MaxLinkHops) = backupDir
    /\ PathBasename(p) \in DOMAIN backups

CanStat(p) == FileExists(Canonical(p, MaxLinkHops)) \/ InBackupDir(p)

CanReadAt(p) == CanRead(Canonical(p, MaxLinkHops)) \/ InBackupDir(p)

BytesAt(p) ==
    IF InBackupDir(p) THEN backups[PathBasename(p)]
    ELSE FileData(Canonical(p, MaxLinkHops))

listFiles(o, dirPath) ==
    /\ CanCall(o)
    /\ LET c == Call("listFiles", dirPath, "", "", "", FALSE, <<>>)
           v == WalkStart(dirPath)
       IN  IF v.err # "none" THEN Return(o, c, v.err, <<>>)
           ELSE Enter(o, c, "l_readdir", v.path, NoWalk)
    /\ UNCHANGED <<diskVars, restVars>>

\* Mutant of listFiles_readdir: the entry names are not tested against the
\* blacklist.
listFiles_readdir_unfiltered(o) ==
    /\ ops[o].pc = "l_readdir"
    /\ IF ~IsDirectory(ops[o].safePath) THEN Return(o, ops[o].call, "Unknown", <<>>)
       ELSE LET names == SeqOf({n \in FileEntries(ops[o].safePath) :
                                   isFileExtensionAllowed(n)})
            IN  IF names = <<>> THEN Return(o, ops[o].call, "ok", <<>>)
                ELSE /\ ops' = [ops EXCEPT ![o].pc = "l_stat", ![o].walk.entries = names]
                     /\ UNCHANGED <<activeOperations, freed>>
    /\ UNCHANGED <<diskVars, restVars>>

\* await fs.readdir(safePath, {withFileTypes: true}), then the loop up to the
\* first await fs.stat: the entries that are files, have an allowed extension and
\* a name that is not blacklisted are the ones still to be stat'ed.
listFiles_readdir(o) ==
    /\ ops[o].pc = "l_readdir"
    /\ IF ~IsDirectory(ops[o].safePath) THEN Return(o, ops[o].call, "Unknown", <<>>)
       ELSE LET names == SeqOf({n \in FileEntries(ops[o].safePath) :
                                   isFileExtensionAllowed(n) /\ ~isPathBlacklisted(n)})
            IN  IF names = <<>> THEN Return(o, ops[o].call, "ok", <<>>)
                ELSE /\ ops' = [ops EXCEPT ![o].pc = "l_stat", ![o].walk.entries = names]
                     /\ UNCHANGED <<activeOperations, freed>>
    /\ UNCHANGED <<diskVars, restVars>>

\* await fs.stat(filePath) for one entry (an entry that cannot be stat'ed is
\* skipped), then the loop up to the next entry's stat or to the return.
listFiles_stat(o) ==
    /\ ops[o].pc = "l_stat"
    /\ LET w == ops[o].walk
           name == Head(w.entries)
           filePath == PathJoin(ops[o].safePath, name)
           fileInfos == IF CanStat(filePath)
                        THEN Append(w.results,
                                    [name |-> name, size |-> byteLength(BytesAt(filePath))])
                        ELSE w.results
       IN  IF Len(w.entries) = 1 THEN Return(o, ops[o].call, "ok", fileInfos)
           ELSE /\ ops' = [ops EXCEPT ![o].walk.entries = Tail(w.entries),
                                      ![o].walk.results = fileInfos]
                /\ UNCHANGED <<activeOperations, freed>>
    /\ UNCHANGED <<diskVars, restVars>>

\* searchInDirectorySafe's safety limit on dequeued directories.
maxDirectories == 1000

\* String.prototype.split('\n')
RECURSIVE SplitLines(_, _, _)
SplitLines(s, i, cur) ==
    IF i > Len(s) THEN <<cur>>
    ELSE IF CharAt(s, i) = "\n" THEN <<cur>> \o SplitLines(s, i + 1, "")
    ELSE SplitLines(s, i + 1, cur \o CharAt(s, i))

\* Mutant of RegExpSpecials: the dollar sign is not escaped.
RegExpSpecials_withoutDollar ==
    {".", "*", "+", "?", "^", "{", "}", "(", ")", "|", "[", "]", "\\"}

RegExpSpecials == {".", "*", "+", "?", "^", "$", "{", "}", "(", ")", "|", "[", "]", "\\"}

\* pattern.replace(/[.*+?^${}()|[\]\\]/g, '\\$&')
RECURSIVE EscapeRegExp(_)
EscapeRegExp(pattern) ==
    IF Len(pattern) = 0 THEN ""
    ELSE (IF CharAt(pattern, 1) \in RegExpSpecials THEN "\\" ELSE "")
         \o CharAt(pattern, 1) \o EscapeRegExp(SubSeq(pattern, 2, Len(pattern)))

Digits == {"0", "1", "2", "3", "4", "5", "6", "7", "8", "9"}

WordChars ==
    Digits \cup {"_"}
    \cup {"a", "b", "c", "d", "e", "f", "g", "h", "i", "j", "k", "l", "m",
          "n", "o", "p", "q", "r", "s", "t", "u", "v", "w", "x", "y", "z"}
    \cup {"A", "B", "C", "D", "E", "F", "G", "H", "I", "J", "K", "L", "M",
          "N", "O", "P", "Q", "R", "S", "T", "U", "V", "W", "X", "Y", "Z"}

\* new RegExp(source): the source read as a sequence of atoms.  A backslash makes
\* the next character literal (\d, \w and \s are the digit, word and space
\* classes); "." is any character, "^" and "$" are the line's ends, "|" separates
\* alternatives, and "*", "+", "?" repeat the one-character atom before them.
\* A source the constructor rejects (a lone backslash, nothing to repeat, an
\* unmatched bracket or parenthesis) yields an atom of kind "bad"; groups and
\* classes are not interpreted and count as such.
RECURSIVE RegExpAtoms(_, _)
RegExpAtoms(source, i) ==
    IF i > Len(source) THEN <<>>
    ELSE LET c == CharAt(source, i)
             escaped == c = "\\" /\ i < Len(source)
             e == CharAt(source, i + 1)
             kind == CASE escaped -> (IF e \in {"d", "w", "s"} THEN e ELSE "char")
                       [] c = "\\" -> "bad"
                       [] c = "." -> "any"
                       [] c = "^" -> "bol"
                       [] c = "$" -> "eol"
                       [] c = "|" -> "alt"
                       [] c \in {"(", ")", "[", "*", "+", "?"} -> "bad"
                       [] OTHER -> "char"
             next == IF escaped THEN i + 2 ELSE i + 1
             repeated == /\ kind \in {"char", "any", "d", "w", "s"}
                         /\ next <= Len(source)
                         /\ CharAt(source, next) \in {"*", "+", "?"}
         IN  << [kind |-> kind, ch |-> IF escaped THEN e ELSE c,
                 quant |-> IF repeated THEN CharAt(source, next) ELSE ""] >>
             \o RegExpAtoms(source, IF repeated THEN next + 1 ELSE next)

\* The alternatives of a sequence of atoms.
RECURSIVE SplitAlternatives(_, _, _)
SplitAlternatives(atoms, i, cur) ==
    IF i > Len(atoms) THEN {cur}
    ELSE IF atoms[i].kind = "alt" THEN {cur} \cup SplitAlternatives(atoms, i + 1, <<>>)
    ELSE SplitAlternatives(atoms, i + 1, Append(cur, atoms[i]))

\* The one-character atom matches character c.
AtomFits(atom, c, ignoreCase) ==
    CASE atom.kind = "char" -> IF ignoreCase THEN LowerOf(atom.ch) = LowerOf(c)
                               ELSE atom.ch = c
      [] atom.kind = "any" -> c # "\n"
      [] atom.kind = "d" -> c \in Digits
      [] atom.kind = "w" -> c \in WordChars
      [] atom.kind = "s" -> c \in {" ", "\t", "\n"}
      [] OTHER -> FALSE

\* The atoms from the a-th on match line from position i on (backtracking).
RECURSIVE MatchAt(_, _, _, _, _)
MatchAt(atoms, a, line, i, ignoreCase) ==
    IF a > Len(atoms) THEN TRUE
    ELSE LET t == atoms[a]
             fits == i <= Len(line) /\ AtomFits(t, CharAt(line, i), ignoreCase)
         IN  CASE t.kind = "bol" -> i = 1 /\ MatchAt(atoms, a + 1, line, i, ignoreCase)
               [] t.kind = "eol" ->
                      i = Len(line) + 1 /\ MatchAt(atoms, a + 1, line, i, ignoreCase)
               [] t.kind \notin {"bol", "eol"} /\ t.quant = "" ->
                      fits /\ MatchAt(atoms, a + 1, line, i + 1, ignoreCase)
               [] t.kind \notin {"bol", "eol"} /\ t.quant = "?" ->
                      \/ fits /\ MatchAt(atoms, a + 1, line, i + 1, ignoreCase)
                      \/ MatchAt(atoms, a + 1, line, i, ignoreCase)
               [] t.kind \notin {"bol", "eol"} /\ t.quant = "*" ->
                      \/ MatchAt(atoms, a + 1, line, i, ignoreCase)
                      \/ fits /\ MatchAt(atoms, a, line, i + 1, ignoreCase)
               [] t.kind \notin {"bol", "eol"} /\ t.quant = "+" ->
                      fits /\ \/ MatchAt(atoms, a + 1, line, i + 1, ignoreCase)
                              \/ MatchAt(atoms, a, line, i + 1, ignoreCase)

\* new RegExp(source, ignoreCase ? 'i' : '').test(line); a source that does not
\* compile makes searchInFile return no match at all.
RegExpTest(source, ignoreCase, line) ==
    LET atoms == RegExpAtoms(source, 1)
    IN  /\ \A n \in 1..Len(atoms) : atoms[n].kind # "bad"
        /\ \E alt \in SplitAlternatives(atoms, 1, <<>>) :
               \E i \in 1..(Len(line) + 1) : MatchAt(alt, 1, line, i, ignoreCase)

\* Array.prototype.slice(start, end) for 0 <= start: the elements at the 0-based
\* positions start .. end - 1.
Slice(lines, start, end) == SubSeq(lines, start + 1, end)

Max(m, n) == IF m > n THEN m ELSE n

Min(m, n) == IF m < n THEN m ELSE n

\* Mutant of MatchContext: the lines after the match are taken from the match on.
MatchContext_fromMatch(lines, i, contextLines) ==
    LET beforeStart == Max(0, i - contextLines)
        afterEnd == Min(Len(lines) - 1, i + contextLines)
    IN  [before |-> Slice(lines, beforeStart, i),
         after |-> Slice(lines, i, afterEnd + 1)]

\* The context of the match at the 0-based line index i.
MatchContext(lines, i, contextLines) ==
    LET beforeStart == Max(0, i - contextLines)
        afterEnd == Min(Len(lines) - 1, i + contextLines)
    IN  [before |-> Slice(lines, beforeStart, i),
         after |-> Slice(lines, i + 1, afterEnd + 1)]

\* The match loop of searchInFile over the lines of a file (i is 0-based, as in
\* the code); a match carries a context only when contextLines > 0.
RECURSIVE MatchLines(_, _, _, _, _)
MatchLines(lines, i, source, ignoreCase, contextLines) ==
    IF i >= Len(lines) THEN <<>>
    ELSE (IF RegExpTest(source, ignoreCase, lines[i + 1])
          THEN << IF contextLines > 0
                  THEN [lineNumber |-> i + 1, line |-> lines[i + 1],
                        context |-> MatchContext(lines, i, contextLines)]
                  ELSE [lineNumber |-> i + 1, line |-> lines[i + 1]] >>
          ELSE <<>>)
         \o MatchLines(lines, i + 1, source, ignoreCase, contextLines)

searchInFile(content, pattern, ignoreCase, contextLines) ==
    MatchLines(SplitLines(content, 1, ""), 0, EscapeRegExp(pattern), ignoreCase,
               contextLines)

\* Mutant of LoopHead: the loop goes on while the count is at most the cap.
LoopHead_pastCap(o, w) ==
    IF Len(w.directoriesToProcess) > 0 /\ w.processedCount <= maxDirectories
    THEN /\ ops' = [ops EXCEPT
                       ![o].pc = "q_realpath",
                       ![o].walk = [w EXCEPT
                           !.currentDir = Head(w.directoriesToProcess),
                           !.directoriesToProcess = Tail(w.directoriesToProcess),
                           !.processedCount = @ + 1]]
         /\ UNCHANGED <<activeOperations, freed>>
    ELSE Return(o, ops[o].call, "ok", w.results)

\* The while loop's head: leave the loop and return, or dequeue the next directory
\* and suspend at fs.realpath.  (searchInFiles passes through it once on entry,
\* with the start directory alone in the queue.)
LoopHead(o, w) ==
    IF Len(w.directoriesToProcess) > 0 /\ w.processedCount < maxDirectories
    THEN /\ ops' = [ops EXCEPT
                       ![o].pc = "q_realpath",
                       ![o].walk = [w EXCEPT
                           !.currentDir = Head(w.directoriesToProcess),
                           !.directoriesToProcess = Tail(w.directoriesToProcess),
                           !.processedCount = @ + 1]]
         /\ UNCHANGED <<activeOperations, freed>>
    ELSE Return(o, ops[o].call, "ok", w.results)

\* The file loop of one directory: suspend at the next file's fs.stat, or go back
\* to the while loop's head.
NextEntry(o, w) ==
    IF Len(w.entries) > 0
    THEN /\ ops' = [ops EXCEPT ![o].pc = "q_stat", ![o].walk = w]
         /\ UNCHANGED <<activeOperations, freed>>
    ELSE LoopHead(o, w)

searchInFiles(o, pattern, searchDir, recursive, ignoreCase, contextLines) ==
    /\ CanCall(o)
    /\ LET c == Call("searchInFiles", searchDir, "", pattern, "", FALSE, <<>>)
           v == WalkStart(searchDir)
           w == [NoWalk EXCEPT !.pattern = pattern, !.recursive = recursive,
                               !.contextLines = contextLines,
                               !.ignoreCase = ignoreCase,
                               !.currentDir = v.path, !.processedCount = 1]
       IN  IF v.err # "none" THEN Return(o, c, v.err, <<>>)
           ELSE Enter(o, c, "q_realpath", v.path, w)
    /\ UNCHANGED <<diskVars, restVars>>

\* Mutant of searchInDirectorySafe_realpath: the real path is not added to
\* processedPaths.
searchInDirectorySafe_realpath_unmarked(o) ==
    /\ ops[o].pc = "q_realpath"
    /\ LET w == ops[o].walk
           realPath == Canonical(w.currentDir, MaxLinkHops)
       IN  IF ~(realPath \in dirs \/ FileExists(realPath))
           THEN LoopHead(o, w)
           ELSE IF realPath \in w.processedPaths THEN LoopHead(o, w)
           ELSE /\ ops' = [ops EXCEPT ![o].pc = "q_readdir"]
                /\ UNCHANGED <<activeOperations, freed>>
    /\ UNCHANGED <<diskVars, restVars>>

\* await fs.realpath(currentDir): a directory that cannot be resolved or whose real
\* path was processed already is skipped.
searchInDirectorySafe_realpath(o) ==
    /\ ops[o].pc = "q_realpath"
    /\ LET w == ops[o].walk
           realPath == Canonical(w.currentDir, MaxLinkHops)
       IN  IF ~(realPath \in dirs \/ FileExists(realPath))
           THEN LoopHead(o, w)
           ELSE IF realPath \in w.processedPaths THEN LoopHead(o, w)
           ELSE /\ ops' = [ops EXCEPT ![o].pc = "q_readdir",
                                      ![o].walk.processedPaths = @ \cup {realPath}]
                /\ UNCHANGED <<activeOperations, freed>>
    /\ UNCHANGED <<diskVars, restVars>>

\* Mutant of Recurses: subdirectories are queued whatever the flag.
Recurses_always(w) == TRUE

\* entry.isDirectory() && recursive: the flag under which subdirectories are queued.
Recurses(w) == w.recursive

\* await fs.readdir(currentDir, {withFileTypes: true}), then the entry loop up to
\* its first await.  The subdirectories are queued here and the files kept for the
\* steps that follow; queueing does not depend on the files' steps.
searchInDirectorySafe_readdir(o) ==
    /\ ops[o].pc = "q_readdir"
    /\ LET w == ops[o].walk
           relativePath(n) == PathRelative(normalizedAllowedDir, PathJoin(w.currentDir, n))
           files == SeqOf({n \in FileEntries(w.currentDir) :
                              isFileExtensionAllowed(n) /\ ~isPathBlacklisted(relativePath(n))})
           subdirs == SeqOf({n \in DirEntries(w.currentDir) :
                                /\ Recurses(w)
                                /\ ~isPathBlacklisted(relativePath(n))
                                /\ ~(StartsWith(n, ".") /\ n \notin {"..", "."})})
           fullPaths == [j \in 1..Len(subdirs) |-> PathJoin(w.currentDir, subdirs[j])]
       IN  IF ~IsDirectory(w.currentDir) THEN LoopHead(o, w)
           ELSE NextEntry(o, [w EXCEPT !.entries = files,
                                       !.directoriesToProcess = @ \o fullPaths,
                                       !.enumerated =
                                           Append(@, Canonical(w.currentDir, MaxLinkHops))])
    /\ UNCHANGED <<diskVars, restVars>>

\* await fs.stat(fullPath): a file that cannot be stat'ed or is over the size limit
\* is skipped.
searchInDirectorySafe_stat(o) ==
    /\ ops[o].pc = "q_stat"
    /\ LET w == ops[o].walk
           fullPath == PathJoin(w.currentDir, Head(w.entries))
       IN  IF ~CanStat(fullPath) \/ byteLength(BytesAt(fullPath)) > maxFileSize
           THEN NextEntry(o, [w EXCEPT !.entries = Tail(@)])
           ELSE /\ ops' = [ops EXCEPT ![o].pc = "q_read"]
                /\ UNCHANGED <<activeOperations, freed>>
    /\ UNCHANGED <<diskVars, restVars>>

\* searchInFile's await fs.readFile(filePath, 'utf-8') and its match loop (a file
\* that cannot be read has no match), then results.push in the caller.
searchInFile_read(o) ==
    /\ ops[o].pc = "q_read"
    /\ LET w == ops[o].walk
           fullPath == PathJoin(w.currentDir, Head(w.entries))
           matches == IF CanReadAt(fullPath)
                      THEN searchInFile(BytesAt(fullPath), w.pattern, w.ignoreCase,
                                        w.contextLines)
                      ELSE <<>>
           results == IF Len(matches) > 0
                      THEN Append(w.results,
                                  [file |-> PathRelative(normalizedAllowedDir, fullPath),
                                   matches |-> matches])
                      ELSE w.results
       IN  NextEntry(o, [w EXCEPT !.entries = Tail(@), !.results = results])
    /\ UNCHANGED <<diskVars, restVars>>

(***************************************************************************)
(* Initial state: a fresh SecureFileManager over a small workspace.  The   *)
(* workspace holds a.js and a symbolic link l.js to a file outside the     *)
(* root.                                                                   *)
(***************************************************************************)
InitDisk ==
    /\ fs = [q \in {"/ws/a.js", "/ws/l.js", "/out/o.js"} |->
                CASE q = "/ws/a.js" -> FileNode("ab")
                  [] q = "/ws/l.js" -> LinkNode("/out/o.js")
                  [] q = "/out/o.js" -> FileNode("s")]
    /\ dirs = {"/", "/ws", "/out"}
    /\ backups = [q \in {} |-> ""]
    /\ now = 0

InitGate ==
    /\ maxConcurrentOperations \in 1..MaxLimit
    /\ activeOperations = 0
    /\ ops = [o \in OpIds |-> IdleOp]
    /\ freed = FALSE

Pending == [err |-> "pending", path |-> ""]

Init ==
    /\ InitGate
    /\ InitDisk
    /\ vConfig = DefaultConfig
    /\ vPath = "" /\ vIsFile = TRUE /\ vOut = Pending

(***************************************************************************)
(* The calls a client issues in the model.                                 *)
(***************************************************************************)
ReadArgs == {"a.js", "l.js", "../o.js"}

WriteArgs ==
    { <<"a.js", "x", FALSE>>, <<"b.js", "y", FALSE>>, <<"a.js", "z", TRUE>>,
      <<"l.js", "z", FALSE>>, <<"a.js", "xxxx", FALSE>>, <<".env.local", "x", FALSE>>,
      <<"../new/o.js", "x", TRUE>> }

PartialArgs == { <<"a.js", "a", "c">>, <<"a.exe", "a", "c">> }

DeleteArgs == { <<"a.js", TRUE>>, <<"../out/o.js", TRUE>> }

RenameArgs ==
    { <<"a.js", "b.js", TRUE>>, <<"a.js", "../new/o.js", TRUE>>,
      <<"/out/o.js", "sub/c.js", TRUE>> }

StreamArgs == { <<"sub/c.js", <<"x", "y">> >>, <<"../new/c.js", <<"x">> >> }

Step(o) ==
    \/ readFile_access(o) \/ readFile_stat(o) \/ readFile_read(o)
    \/ createBackup_mkdir(o) \/ createBackup_copyFile(o)
    \/ writeFile_access(o) \/ writeFile_mkdir(o) \/ writeFile_write(o)
    \/ partialWriteFile_read(o) \/ partialWriteFile_write(o)
    \/ deleteFile_access(o) \/ deleteFile_unlink(o)
    \/ renameFile_accessOld(o) \/ renameFile_accessNew(o)
    \/ renameFile_mkdir(o) \/ renameFile_rename(o)
    \/ streamWriteFile_mkdir(o) \/ streamWriteFile_open(o) \/ streamWriteFile_chunk(o)
    \/ streamWriteFile_flush(o)

Next ==
    \E o \in OpIds :
        \/ \E a \in ReadArgs : readFile(o, a)
        \/ \E a \in WriteArgs : writeFile(o, a[1], a[2], a[3])
        \/ \E a \in PartialArgs : partialWriteFile(o, a[1], a[2], a[3])
        \/ \E a \in DeleteArgs : deleteFile(o, a[1], a[2])
        \/ \E a \in RenameArgs : renameFile(o, a[1], a[2], a[3])
        \/ \E a \in StreamArgs : streamWriteFile(o, a[1], a[2])
        \/ Step(o)

Spec == Init /\ [][Next]_vars

(***************************************************************************)
(* validatePath on its own: one evaluation per caller-supplied path.       *)
(***************************************************************************)
\* Longest generated path, in segments.
MaxSegs == 3

PathSegments == {"..", ".", "ws", "wsx", "a.js", "sub"}

RECURSIVE PathsOfLength(_)
PathsOfLength(n) ==
    IF n = 0 THEN {""}
    ELSE IF n = 1 THEN PathSegments
    ELSE {p \o "/" \o g : p \in PathsOfLength(n - 1), g \in PathSegments}

GeneratedPaths ==
    LET rel == UNION {PathsOfLength(n) : n \in 0..MaxSegs}
    IN  rel \cup {"/" \o p : p \in rel} \cup {p \o "/" : p \in rel}

\* Paths named by the README and the test suite.
NamedPaths ==
    { ".env", ".env.local", ".env.production", ".git/config",
      "node_modules/package.json", "node_modules/a/index.js", "secrets/api-key.txt",
      "secrets/k", ".gitignore", ".env.template", ".env.example", ".env.sample",
      "Dockerfile", "Makefile", "package.json", "tsconfig.json",
      "../../../etc/passwd", "../outside-workspace.txt", "subdir/../../outside.txt",
      "a.exe", "A.JS", "/wsx", "/ws/", "../ws" }

PathInputs == GeneratedPaths \cup NamedPaths

InitPath ==
    /\ InitGate
    /\ InitDisk
    /\ vConfig = DefaultConfig
    /\ vPath \in PathInputs
    /\ vIsFile \in BOOLEAN
    /\ vOut = Pending

Validate ==
    /\ vOut = Pending
    /\ vOut' = validatePath(vPath, vIsFile)
    /\ UNCHANGED <<maxConcurrentOperations, gateVars, diskVars, vConfig, vPath, vIsFile>>

NextPath == Validate

SpecPath == InitPath /\ [][NextPath]_vars

(***************************************************************************)
(* The walker next to gated calls: a workspace with a nested directory, a   *)
(* hidden directory and a blacklisted file, listed and searched while      *)
(* reads and writes run.                                                   *)
(***************************************************************************)
InitWalk ==
    /\ InitGate
    /\ fs = [q \in {"/ws/a.js", "/ws/l.js", "/out/o.js", "/ws/sub/c.js", "/ws/.env.local",
                       "/ws/.h/e.js"} |->
                CASE q = "/ws/a.js" -> FileNode("ab")
                  [] q = "/ws/.h/e.js" -> FileNode("b")
                  [] q = "/ws/l.js" -> LinkNode("/out/o.js")
                  [] q = "/out/o.js" -> FileNode("s")
                  [] q = "/ws/sub/c.js" -> FileNode("a\nb")
                  [] q = "/ws/.env.local" -> FileNode("b")]
    /\ dirs = {"/", "/ws", "/out", "/ws/sub", "/ws/.h"}
    /\ backups = [q \in {} |-> ""]
    /\ now = 0
    /\ vConfig = DefaultConfig
    /\ vPath = "" /\ vIsFile = TRUE /\ vOut = Pending

WalkReadArgs == {"a.js"}

WalkWriteArgs == { <<"sub/d.js", "b", FALSE>> }

ListArgs == {"", "sub", "../out", "nodir"}

SearchArgs ==
    { <<"b", "", TRUE, FALSE>>, <<"b", "", FALSE, FALSE>>, <<"B", "sub", FALSE, TRUE>>,
      <<"b", "../out", FALSE, FALSE>> }

NextWalk ==
    \E o \in OpIds :
        \/ \E a \in WalkReadArgs : readFile(o, a)
        \/ \E a \in WalkWriteArgs : writeFile(o, a[1], a[2], a[3])
        \/ \E a \in ListArgs : listFiles(o, a)
        \/ \E a \in SearchArgs : searchInFiles(o, a[1], a[2], a[3], a[4], 0)
        \/ readFile_access(o) \/ readFile_stat(o) \/ readFile_read(o)
        \/ writeFile_mkdir(o) \/ writeFile_write(o)
        \/ listFiles_readdir(o) \/ listFiles_stat(o)
        \/ searchInDirectorySafe_realpath(o) \/ searchInDirectorySafe_readdir(o)
        \/ searchInDirectorySafe_stat(o) \/ searchInFile_read(o)

SpecWalk == InitWalk /\ [][NextWalk]_vars

(***************************************************************************)
(* Backups that fail: a workspace whose .backups name may be held by a     *)
(* regular file (as writeFile('.backups', ...) leaves it), and a file      *)
(* without read permission.                                                *)
(***************************************************************************)
FaultDisk(blocked) ==
    [q \in {"/ws/a.js", "/ws/u.js"} \cup (IF blocked THEN {backupDir} ELSE {}) |->
        CASE q = "/ws/a.js" -> FileNode("ab")
          [] q = "/ws/u.js" -> LockedNode("ab")
          [] q = backupDir -> FileNode("x")]

InitFault ==
    /\ InitGate
    /\ fs \in {FaultDisk(blocked) : blocked \in BOOLEAN}
    /\ dirs = {"/", "/ws"}
    /\ backups = [q \in {} |-> ""]
    /\ now = 0
    /\ vConfig = DefaultConfig
    /\ vPath = "" /\ vIsFile = TRUE /\ vOut = Pending

FaultWriteArgs == { <<"a.js", "z", TRUE>>, <<"u.js", "z", TRUE>> }

FaultPartialArgs == { <<"a.js", "a", "c">> }

FaultDeleteArgs == { <<"a.js", TRUE>>, <<"u.js", TRUE>>, <<"a.js", FALSE>> }

FaultRenameArgs == { <<"a.js", "b.js", TRUE>>, <<"u.js", "sub/v.js", TRUE>> }

NextFault ==
    \E o \in OpIds :
        \/ \E a \in FaultWriteArgs : writeFile(o, a[1], a[2], a[3])
        \/ \E a \in FaultPartialArgs : partialWriteFile(o, a[1], a[2], a[3])
        \/ \E a \in FaultDeleteArgs : deleteFile(o, a[1], a[2])
        \/ \E a \in FaultRenameArgs : renameFile(o, a[1], a[2], a[3])
        \/ createBackup_mkdir(o) \/ createBackup_copyFile(o)
        \/ writeFile_access(o) \/ writeFile_mkdir(o) \/ writeFile_write(o)
        \/ partialWriteFile_read(o) \/ partialWriteFile_write(o)
        \/ deleteFile_access(o) \/ deleteFile_unlink(o)
        \/ renameFile_accessOld(o) \/ renameFile_accessNew(o)
        \/ renameFile_mkdir(o) \/ renameFile_rename(o)

SpecFault == InitFault /\ [][NextFault]_vars

(***************************************************************************)
(* Calls run one at a time: a call arrives only when none is in flight.    *)
(***************************************************************************)
NoneInFlight == \A q \in OpIds : ~InFlight(q)

InitSolo ==
    /\ maxConcurrentOperations = MaxLimit
    /\ activeOperations = 0
    /\ ops = [o \in OpIds |-> IdleOp]
    /\ freed = FALSE
    /\ vConfig = DefaultConfig
    /\ vPath = "" /\ vIsFile = TRUE /\ vOut = Pending

\* partialWriteFile alone, over a file of every content below and with every
\* fragment and replacement below.
PartialContents == {"", "ab", "aa", "aaa"}

PartialOld == {"a", "aa", "b", ""}

PartialNew == {"c", "ccc"}

InitPartial ==
    /\ InitSolo
    /\ fs \in {[q \in {"/ws/a.js"} |-> FileNode(d)] : d \in PartialContents}
    /\ dirs = {"/", "/ws"}
    /\ backups = [q \in {} |-> ""]
    /\ now = 0

NextPartial ==
    \E o \in OpIds :
        \/ /\ NoneInFlight
           /\ \E old \in PartialOld, new \in PartialNew : partialWriteFile(o, "a.js", old, new)
        \/ partialWriteFile_read(o) \/ partialWriteFile_write(o)
        \/ createBackup_mkdir(o) \/ createBackup_copyFile(o)

SpecPartial == InitPartial /\ [][NextPartial]_vars

\* Reads, writes, deletes and renames run one at a time over a workspace with a
\* readable file and a file without read permission.
InitSoloRun ==
    /\ InitSolo
    /\ fs = [q \in {"/ws/a.js", "/ws/u.js", "/ws/m.js", "/ws/big.js"} |->
                IF q = "/ws/a.js" THEN FileNode("ab")
                ELSE IF q = "/ws/u.js" THEN LockedNode("ab")
                ELSE IF q = "/ws/m.js" THEN FileNode("abc")
                ELSE FileNode("abcdef")]
    /\ dirs = {"/", "/ws"}
    /\ backups = [q \in {} |-> ""]
    /\ now = 0

SoloReadArgs == {"a.js", "u.js", "n.js", "sub/c.js", "m.js", "big.js"}

SoloWriteArgs ==
    { <<"a.js", "xyz", TRUE>>, <<"a.js", "wxyz", TRUE>>, <<"a.js", "q", FALSE>>,
      <<"sub/c.js", "q", TRUE>>, <<"new/d.js", "wxyz", TRUE>> }

SoloDeleteArgs == { <<"a.js", TRUE>>, <<"a.js", FALSE>>, <<"n.js", TRUE>> }

SoloRenameArgs ==
    { <<"a.js", "sub/c.js", TRUE>>, <<"a.js", "a.js", TRUE>>, <<"n.js", "a.js", TRUE>>,
      <<"a.js", "u.js", TRUE>> }

NextSolo ==
    \E o \in OpIds :
        \/ /\ NoneInFlight
           /\ \/ \E a \in SoloReadArgs : readFile(o, a)
              \/ \E a \in SoloWriteArgs : writeFile(o, a[1], a[2], a[3])
              \/ \E a \in SoloDeleteArgs : deleteFile(o, a[1], a[2])
              \/ \E a \in SoloRenameArgs : renameFile(o, a[1], a[2], a[3])
        \/ readFile_access(o) \/ readFile_stat(o) \/ readFile_read(o)
        \/ createBackup_mkdir(o) \/ createBackup_copyFile(o)
        \/ writeFile_access(o) \/ writeFile_mkdir(o) \/ writeFile_write(o)
        \/ deleteFile_access(o) \/ deleteFile_unlink(o)
        \/ renameFile_accessOld(o) \/ renameFile_accessNew(o)
        \/ renameFile_mkdir(o) \/ renameFile_rename(o)

SpecSolo == InitSoloRun /\ [][NextSolo]_vars

(***************************************************************************)
(* Properties.                                                             *)
(***************************************************************************)
DeniedKinds == {"OutsideRoot", "Blacklisted", "ExtensionNotAllowed"}

MutatingMethods ==
    {"writeFile", "streamWriteFile", "deleteFile", "renameFile", "partialWriteFile"}

Arrived == {o \in OpIds : ops[o].pc # "idle"}

GatedMethods ==
    {"readFile", "writeFile", "streamWriteFile", "deleteFile", "renameFile",
     "partialWriteFile"}

WalkerMethods == {"listFiles", "searchInFiles"}

\* The admitted calls that have not settled.
Running == {o \in OpIds : InFlight(o) /\ ops[o].call.m \in GatedMethods}

\* Where a path leads, computed on segments: start at the root (or at "/" for an
\* absolute path), descend on a name, climb on "..", stay on "." and "".
RECURSIVE Climb(_, _)
Climb(stack, segs) ==
    IF Len(segs) = 0 THEN stack
    ELSE LET g == Head(segs)
         IN  IF g = "" \/ g = "." THEN Climb(stack, Tail(segs))
             ELSE IF g = ".."
             THEN Climb(IF Len(stack) = 0 THEN stack
                        ELSE SubSeq(stack, 1, Len(stack) - 1), Tail(segs))
             ELSE Climb(Append(stack, g), Tail(segs))

RootSegments == Climb(<<>>, SplitSegs(allowedDirectory, 1, ""))

Location(p) ==
    Climb(IF IsAbsolute(p) THEN <<>> ELSE RootSegments, SplitSegs(p, 1, ""))

\* The path leads to the root directory or to something below it.
LeadsInsideRoot(p) ==
    /\ Len(Location(p)) >= Len(RootSegments)
    /\ SubSeq(Location(p), 1, Len(RootSegments)) = RootSegments

\* C1: validatePath fails with OutsideRoot exactly for the paths (relative with
\* "..", absolute, or a sibling whose name has the root as a string prefix) that
\* lead neither to the root nor below it; every path leading to the root or inside
\* it passes that check.
C1_OutsideRootExactlyWhenEscaping ==
    vOut # Pending => ((vOut.err = "OutsideRoot") <=> ~LeadsInsideRoot(vPath))

\* C1 witness: a traversal into the sibling directory /wsx is refused.
C1_Witness == vOut.err = "OutsideRoot" /\ vPath = "../wsx/a.js"

\* The resolved path of a call's filePath.
ResolvedOf(o) == validatePath(ops[o].call.filePath, TRUE).path

\* C2: a settled call whose path is lexically inside the root while the file it
\* names is, through a symbolic link, outside the root was denied; and nothing
\* outside the root is ever changed.
C2_NoAccessThroughSymlink ==
    /\ \A o \in OpIds :
          (/\ ops[o].pc = "done"
           /\ IsInsideRoot(ResolvedOf(o))
           /\ ~IsInsideRoot(RealPath(ResolvedOf(o))))
          => ops[o].res \in DeniedKinds \cup {"ResourceExhausted"}
    /\ NodeAt("/out/o.js") = FileNode("s")

\* The files the README lists as protected.
ProtectedPaths ==
    { ".env", ".env.local", ".env.production", ".git/config",
      "node_modules/package.json", "node_modules/a/index.js",
      "secrets/api-key.txt", "secrets/k" }

\* C3: under the default configuration every protected file is refused as
\* Blacklisted when validated for a file operation.
C3_ProtectedFilesBlacklisted ==
    (vOut # Pending /\ vIsFile /\ vPath \in ProtectedPaths) => vOut.err = "Blacklisted"

\* C4: a mutating call whose path fails validation changes no file, directory or
\* backup, at the moment it fails or later; nothing is ever created under the
\* directories that only invalid paths name.
C4_FailedValidationMutatesNothing ==
    /\ [][\A o \in OpIds :
            (/\ ops[o].pc = "idle"
             /\ ops'[o].call.m \in MutatingMethods
             /\ ops'[o].res \in DeniedKinds)
            => (fs' = fs /\ dirs' = dirs /\ backups' = backups)]_vars
    /\ [][\A o \in OpIds : ops[o].res \in DeniedKinds => ops'[o] = ops[o]]_vars
    /\ [](\A d \in dirs : IsInsideRoot(d) \/ d \in {"/", "/out"})

\* C4 witness: a rename whose destination is outside the root has failed.
C4_Witness ==
    \E o \in OpIds :
        /\ ops[o].call.m = "renameFile"
        /\ ops[o].call.filePath = "a.js"
        /\ ops[o].res = "OutsideRoot"

\* C5: the admission counter stays between 0 and maxConcurrentOperations.
C5_CounterWithinLimit ==
    activeOperations >= 0 /\ activeOperations <= maxConcurrentOperations

\* C5 witness: the gate is full with two calls of different methods in flight.
C5_Witness ==
    /\ activeOperations = 2
    /\ maxConcurrentOperations = 2
    /\ \E o, q \in Running : ops[o].call.m # ops[q].call.m

\* C6: the counter equals the number of admitted calls that have not settled
\* (so it is 0 when none is in flight): one increment per admission, one
\* decrement per settled admitted call, none for a rejected call.
C6_CounterCountsCallsInFlight ==
    activeOperations = Cardinality(Running)

\* C6 witness: every call has settled, one of them through an error path after
\* its first await, and the counter is back at 0.
C6_Witness ==
    /\ activeOperations = 0
    /\ \A o \in OpIds : ops[o].pc = "done"
    /\ \E o \in OpIds : ops[o].res \in {"NotFound", "AlreadyExists", "NoMatch", "Unknown"}

\* C7: a call of any method on any path that arrives while the counter equals the
\* limit settles at once as ResourceExhausted, changes neither the counter nor the
\* disk, and is never admitted afterwards.
C7_FullGateRejectsAtOnce ==
    /\ [][\A o \in OpIds :
            (/\ ops[o].pc = "idle" /\ ops'[o].pc # "idle"
             /\ activeOperations = maxConcurrentOperations)
            => /\ ops'[o].pc = "done"
               /\ ops'[o].res = "ResourceExhausted"
               /\ activeOperations' = activeOperations
               /\ fs' = fs /\ dirs' = dirs /\ backups' = backups]_vars
    /\ [][\A o \in OpIds : ops[o].res = "ResourceExhausted" => ops'[o] = ops[o]]_vars

\* C7 witness: a call with a path outside the root was rejected at the full gate.
C7_Witness ==
    \E o \in OpIds :
        /\ ops[o].res = "ResourceExhausted"
        /\ ops[o].call.filePath = "../o.js"

\* The await a call is suspended at right after it was admitted.
AtFirstAwait(o) ==
    LET c == ops[o].call
    IN  \/ ops[o].pc \in {"r_access", "w_access", "p_read", "d_access",
                          "n_accessOld", "s_mkdir"}
        \/ ops[o].pc = "w_mkdir" /\ ~c.createBackup

\* A call that settled before its first await: rejected, or admitted and thrown
\* by validatePath or by writeFile's content size check.
SettledSync(o) ==
    /\ ops[o].pc = "done"
    /\ \/ ops[o].res \in DeniedKinds \cup {"ResourceExhausted"}
       \/ ops[o].call.m = "writeFile" /\ ops[o].res = "SizeExceeded"

\* maxConcurrentOperations + 1 calls have been issued and no awaited fs call has
\* completed yet.
BurstOfLimitPlusOne ==
    /\ Cardinality(Arrived) = maxConcurrentOperations + 1
    /\ \A o \in Arrived : AtFirstAwait(o) \/ SettledSync(o)

\* C8 as stated: any maxConcurrentOperations + 1 simultaneous calls, with valid or
\* invalid paths, produce at least one ResourceExhausted.
C8_AnyBurstRejectsOne ==
    BurstOfLimitPlusOne => \E o \in Arrived : ops[o].res = "ResourceExhausted"

\* C8 amended: maxConcurrentOperations + 1 simultaneous calls produce at least one
\* ResourceExhausted when none of them is admitted and then thrown before its first
\* await (by validatePath, or by writeFile's content size check).
C8_BurstOfSuspendingCallsRejectsOne ==
    (/\ BurstOfLimitPlusOne
     /\ \A o \in Arrived : SettledSync(o) => ops[o].res = "ResourceExhausted")
    => \E o \in Arrived : ops[o].res = "ResourceExhausted"

\* C8 witness: a burst of two calls at limit 1, the first suspended, the second
\* rejected.
C8_Witness ==
    /\ maxConcurrentOperations = 1
    /\ BurstOfLimitPlusOne
    /\ AtFirstAwait(1)
    /\ ops[2].res = "ResourceExhausted"

\* C9: a call that arrives after an admitted call has settled, with no other
\* arrival in between, is admitted.
C9_AdmittedAfterCompletion ==
    [][\A o \in OpIds :
          (freed /\ ops[o].pc = "idle" /\ ops'[o].pc # "idle")
          => ops'[o].res # "ResourceExhausted"]_vars

\* C9 witness: at limit 1 the first call filled the gate and completed, and the
\* second call is in flight.
C9_Witness ==
    /\ maxConcurrentOperations = 1
    /\ ops[1].res = "ok"
    /\ InFlight(2)

\* C10: as long as at most maxConcurrentOperations calls have been issued none is
\* rejected; and when all of them are writes to distinct files that have settled,
\* every one succeeded and its file holds its own content.
C10_WithinLimitNoneRejected ==
    Cardinality(Arrived) <= maxConcurrentOperations =>
        /\ \A o \in Arrived : ops[o].res # "ResourceExhausted"
        /\ (/\ \A o \in Arrived :
                  /\ ops[o].pc = "done"
                  /\ ops[o].call.m = "writeFile"
                  /\ validatePath(ops[o].call.filePath, TRUE).err = "none"
                  /\ byteLength(ops[o].call.content) <= maxFileSize
            /\ \A o, q \in Arrived : o # q => ResolvedOf(o) # ResolvedOf(q))
           => \A o \in Arrived :
                  /\ ops[o].res = "ok"
                  /\ FileExists(ResolvedOf(o))
                  /\ FileData(ResolvedOf(o)) = ops[o].call.content

\* C10 witness: two writes to distinct files at limit 2 have both succeeded.
C10_Witness ==
    /\ maxConcurrentOperations = 2
    /\ \A o \in {1, 2} : ops[o].call.m = "writeFile" /\ ops[o].res = "ok"
    /\ ResolvedOf(1) # ResolvedOf(2)

\* C11: listFiles and searchInFiles never settle as ResourceExhausted, no step of
\* theirs (arrival included, whatever the counter) changes activeOperations, and a
\* search of a directory that passes validation always succeeds, however many
\* searches and gated calls run at the same time.
C11_WalkerOutsideGate ==
    /\ [](\A o \in OpIds :
            ops[o].call.m \in WalkerMethods =>
                /\ ops[o].res # "ResourceExhausted"
                /\ (/\ ops[o].pc = "done"
                    /\ ops[o].call.m = "searchInFiles"
                    /\ WalkStart(ops[o].call.filePath).err = "none")
                   => ops[o].res = "ok")
    /\ [][\A o \in OpIds :
            (ops'[o] # ops[o] /\ ops'[o].call.m \in WalkerMethods)
            => activeOperations' = activeOperations]_vars

\* C11 witness: both calls are searches and both succeeded at limit 1; or a search
\* arrived and succeeded while a read filled the gate.
C11_Witness ==
    /\ maxConcurrentOperations = 1
    /\ activeOperations = 1
    /\ ops[1].call.m = "readFile" /\ InFlight(1)
    /\ ops[2].call.m = "searchInFiles" /\ ops[2].res = "ok"
    /\ Len(ops[2].walk.results) = 2

\* The awaits of createBackup.
BackupPcs == {"b_mkdir", "b_copy"}

\* The call takes a backup before it mutates.
TakesBackup(o) ==
    \/ ops[o].call.m = "partialWriteFile"
    \/ ops[o].call.m \in {"deleteFile", "renameFile"} /\ ops[o].call.createBackup

\* The awaits of a method that follow its backup: the mutation itself and, for
\* renameFile, the creation of the destination's directory.
MutationPcs == {"p_write", "d_unlink", "n_mkdir", "n_rename"}

\* C12: a deleteFile or renameFile with createBackup, or a partialWriteFile, is at
\* its mutation only with its backup copy on disk; a step of createBackup either
\* moves on inside createBackup, or has written the backup (the file's bytes) and
\* hands over to the mutation, or settles the call as failed with every file left
\* as it was; and a settled call does nothing more.
C12_BackupBeforeMutation ==
    /\ [](\A o \in OpIds :
            (TakesBackup(o) /\ ops[o].pc \in MutationPcs)
            => ops[o].bname \in DOMAIN backups)
    /\ [][\A o \in OpIds :
            (TakesBackup(o) /\ ops[o].pc \in BackupPcs /\ ops'[o] # ops[o])
            => \/ ops'[o].pc = "b_copy"
               \/ /\ ops'[o].pc \in MutationPcs
                  /\ ops[o].bname \in DOMAIN backups'
                  /\ backups'[ops[o].bname] = FileData(ops[o].safePath)
                  /\ fs' = fs
               \/ /\ ops'[o].pc = "done"
                  /\ ops'[o].res = "Unknown"
                  /\ fs' = fs]_vars
    /\ [][\A o \in OpIds : ops[o].pc = "done" => ops'[o] = ops[o]]_vars

\* C12 witness: with .backups held by a regular file a delete has failed and its
\* file is still there, and a rename of the unreadable file has failed with source
\* and destination as they were.
C12_Witness ==
    /\ ops[1].call.m = "deleteFile" /\ ops[1].call.createBackup
    /\ ops[1].res = "Unknown"
    /\ NodeAt("/ws/a.js") = FileNode("ab")
    /\ ops[2].call.m = "renameFile"
    /\ ops[2].res = "Unknown"
    /\ NodeAt("/ws/u.js") = LockedNode("ab")
    /\ NodeAt("/ws/sub/v.js") = NoNode
    /\ backups = [q \in {} |-> ""]

\* C13: a writeFile with createBackup that found its file existing and whose
\* createBackup fails (the backup directory cannot be created, or the copy fails)
\* settles as failed with every file left as it was; it goes on to the write only
\* with the backup copy on disk.
C13_WriteAbortsWhenBackupFails ==
    [][\A o \in OpIds :
          (/\ ops[o].call.m = "writeFile"
           /\ ops[o].pc \in BackupPcs
           /\ ops'[o] # ops[o])
          => \/ ops'[o].pc = "b_copy"
             \/ /\ ops'[o].pc = "w_mkdir"
                /\ ops[o].bname \in DOMAIN backups'
                /\ backups'[ops[o].bname] = FileData(ops[o].safePath)
             \/ /\ ops'[o].pc = "done"
                /\ ops'[o].res # "ok"
                /\ fs' = fs]_vars

\* The number of positions at which p occurs in s, overlapping occurrences counted.
Occurrences(s, p) ==
    Cardinality({i \in 0..(Len(s) - Len(p)) : SubSeq(s, i + 1, i + Len(p)) = p})

\* s with the occurrence of p (the first one, if there are several) replaced by new.
ReplaceOnce(s, p, new) ==
    LET i == CHOOSE j \in 0..(Len(s) - Len(p)) :
                 /\ SubSeq(s, j + 1, j + Len(p)) = p
                 /\ \A h \in 0..(j - 1) : SubSeq(s, h + 1, h + Len(p)) # p
    IN  SubSeq(s, 1, i) \o new \o SubSeq(s, i + Len(p) + 1, Len(s))

\* A partialWriteFile, run without interleaving, that has passed its checks takes
\* its backup and writes: it settles ok, the file is the file before the write with
\* the one occurrence replaced, and the backup holds the file before the write.
PartialWriteCompletes ==
    [][\A o \in OpIds :
          (/\ ops[o].call.m = "partialWriteFile"
           /\ ops[o].pc \in {"b_mkdir", "b_copy", "p_write"}
           /\ ops'[o] # ops[o])
          => IF ops[o].pc = "p_write"
             THEN /\ ops'[o].res = "ok"
                  /\ fs'[ops[o].safePath].data =
                         ReplaceOnce(FileData(ops[o].safePath), ops[o].call.oldContent,
                                     ops[o].call.content)
                  /\ ops[o].bname \in DOMAIN backups
                  /\ backups[ops[o].bname] = FileData(ops[o].safePath)
             ELSE ops'[o].pc # "done"]_vars

\* C14 as stated, read for a non-empty old: zero occurrences of old fail NoMatch,
\* two or more (overlapping ones counted) fail AmbiguousMatch, exactly one
\* succeeds, with that span replaced and a backup of the file before the write.
C14_PartialWriteByOccurrences ==
    /\ [][\A o \in OpIds :
            (/\ ops[o].call.m = "partialWriteFile"
             /\ ops[o].call.oldContent # ""
             /\ ops[o].pc = "p_read"
             /\ ops'[o] # ops[o])
            => LET n == Occurrences(FileData(ops[o].safePath), ops[o].call.oldContent)
               IN  /\ n = 0 => ops'[o].res = "NoMatch"
                   /\ n >= 2 => ops'[o].res = "AmbiguousMatch"
                   /\ n = 1 => ops'[o].pc # "done"]_vars
    /\ PartialWriteCompletes

\* C14 amended: for a non-empty old, zero occurrences fail NoMatch, two or more
\* (overlapping ones counted) fail AmbiguousMatch, and exactly one succeeds (span
\* replaced, backup of the file before the write) when the resulting content is at
\* most maxFileSize bytes and fails SizeExceeded otherwise; an empty old fails
\* AmbiguousMatch on every file, the empty one included.
C14_PartialWriteByOccurrencesWithinSize ==
    /\ [][\A o \in OpIds :
            (/\ ops[o].call.m = "partialWriteFile"
             /\ ops[o].pc = "p_read"
             /\ ops'[o] # ops[o])
            => LET cur == FileData(ops[o].safePath)
                   old == ops[o].call.oldContent
                   n == Occurrences(cur, old)
               IN  IF old = "" THEN ops'[o].res = "AmbiguousMatch"
                   ELSE /\ n = 0 => ops'[o].res = "NoMatch"
                        /\ n >= 2 => ops'[o].res = "AmbiguousMatch"
                        /\ n = 1 =>
                             IF byteLength(ReplaceOnce(cur, old, ops[o].call.content))
                                    <= maxFileSize
                             THEN ops'[o].pc # "done"
                             ELSE ops'[o].res = "SizeExceeded"]_vars
    /\ PartialWriteCompletes

\* C14 witness: calls have failed as AmbiguousMatch on the overlapping "aa" in
\* "aaa" and succeeded on "b" in "ab", leaving "ac" and a backup holding "ab".
C14_Witness ==
    \/ /\ ops[1].call.oldContent = "aa" /\ ops[1].res = "AmbiguousMatch"
       /\ FileData("/ws/a.js") = "aaa"
       /\ ops[2].call.oldContent = "b" /\ ops[2].res = "NoMatch"
    \/ /\ ops[1].call.oldContent = "b" /\ ops[1].call.content = "c" /\ ops[1].res = "ok"
       /\ FileData("/ws/a.js") = "ac"
       /\ \E b \in DOMAIN backups : backups[b] = "ab"
       /\ ops[2].call.oldContent = "aa" /\ ops[2].res = "NoMatch"

\* Call o takes a step.
Steps(o) == ops'[o] # ops[o]

\* The files, directories and backups are left as they are.
DiskUnchanged == fs' = fs /\ dirs' = dirs /\ backups' = backups

\* The step adds exactly one backup file, named name and holding bytes.
OneNewBackup(name, bytes) ==
    /\ name \notin DOMAIN backups
    /\ backups' = PutNode(backups, name, bytes)

\* C15: deleteFile on a valid path, run without interleaving: a missing file
\* fails NotFound and nothing changes; with createBackup exactly one new backup file
\* holding the file's bytes appears, with or without createBackup the call succeeds
\* and the file is gone, and without createBackup no backup file is created.
C15_DeleteWithOrWithoutBackup ==
    [][\A o \in OpIds :
          (ops[o].call.m = "deleteFile" /\ Steps(o))
          => CASE ops[o].pc = "d_access" ->
                      IF FileExists(ops[o].safePath)
                      THEN /\ DiskUnchanged
                           /\ ops'[o].pc = IF ops[o].call.createBackup
                                           THEN "b_mkdir" ELSE "d_unlink"
                      ELSE ops'[o].res = "NotFound" /\ DiskUnchanged
               [] ops[o].pc = "b_mkdir" ->
                      ops'[o].pc = "b_copy" /\ fs' = fs /\ backups' = backups
               [] ops[o].pc = "b_copy" ->
                      /\ ops'[o].pc = "d_unlink"
                      /\ fs' = fs
                      /\ OneNewBackup(ops'[o].bname, FileData(ops[o].safePath))
               [] ops[o].pc = "d_unlink" ->
                      /\ ops'[o].res = "ok"
                      /\ fs' = PutNode(fs, ops[o].safePath, NoNode)
                      /\ backups' = backups
               [] OTHER -> TRUE]_vars

\* C16: renameFile on valid paths, run without interleaving: an absent source
\* fails NotFound, whatever the destination; otherwise an existing destination
\* (the source itself included) fails AlreadyExists; both leave every file as it
\* was; otherwise the call succeeds, the destination's directory exists, the
\* destination holds what the source held and the source is gone.
C16_RenameChecksThenMoves ==
    [][\A o \in OpIds :
          (ops[o].call.m = "renameFile" /\ Steps(o))
          => CASE ops[o].pc = "n_accessOld" ->
                      /\ DiskUnchanged
                      /\ IF FileExists(ops[o].safePath) THEN ops'[o].pc = "n_accessNew"
                         ELSE ops'[o].res = "NotFound"
               [] ops[o].pc = "n_accessNew" ->
                      /\ DiskUnchanged
                      /\ IF FileExists(ops[o].safeNew) THEN ops'[o].res = "AlreadyExists"
                         ELSE ops'[o].pc # "done"
               [] ops[o].pc \in BackupPcs \cup {"n_mkdir"} ->
                      ops'[o].pc # "done" /\ fs' = fs
               [] ops[o].pc = "n_rename" ->
                      /\ ops'[o].res = "ok"
                      /\ PathDirname(ops[o].safeNew) \in dirs
                      /\ fs'[ops[o].safeNew] = fs[ops[o].safePath]
                      /\ fs'[ops[o].safePath] = NoNode
                      /\ \A q \in DOMAIN fs \ {ops[o].safePath, ops[o].safeNew} :
                            fs'[q] = fs[q]
               [] OTHER -> TRUE]_vars

\* C16 witness: a rename into a directory that did not exist has succeeded, and a
\* rename of an absent source onto an existing file has failed NotFound.
C16_Witness ==
    /\ ops[1].call.m = "renameFile" /\ ops[1].res = "ok"
    /\ NodeAt("/ws/sub/c.js") = FileNode("ab")
    /\ NodeAt("/ws/a.js") = NoNode
    /\ "/ws/sub" \in dirs
    /\ ops[2].call.m = "renameFile" /\ ops[2].call.filePath = "n.js"
    /\ ops[2].call.newPath = "a.js"
    /\ ops[2].res = "NotFound"

\* C17: a writeFile on a valid path with content of more than maxFileSize bytes
\* settles on arrival as SizeExceeded with no file, directory or backup changed;
\* content of at most maxFileSize bytes is never refused as SizeExceeded and, run
\* without interleaving, is written.
C17_OversizeWriteRefused ==
    /\ [][\A o \in OpIds :
            (/\ ops[o].pc = "idle"
             /\ ops'[o].call.m = "writeFile"
             /\ validatePath(ops'[o].call.filePath, TRUE).err = "none"
             /\ byteLength(ops'[o].call.content) > maxFileSize)
            => /\ ops'[o].pc = "done"
               /\ ops'[o].res = "SizeExceeded"
               /\ DiskUnchanged]_vars
    /\ [](\A o \in OpIds :
            (/\ ops[o].pc = "done"
             /\ ops[o].call.m = "writeFile"
             /\ validatePath(ops[o].call.filePath, TRUE).err = "none"
             /\ byteLength(ops[o].call.content) <= maxFileSize)
            => ops[o].res = "ok")

\* C17 witness: a write of maxFileSize + 1 bytes to a file in a missing directory
\* was refused, nothing was created, and a write of exactly maxFileSize bytes has
\* succeeded.
C17_Witness ==
    /\ ops[1].call.filePath = "new/d.js"
    /\ byteLength(ops[1].call.content) = maxFileSize + 1
    /\ ops[1].res = "SizeExceeded"
    /\ "/ws/new" \notin dirs
    /\ ops[2].call.m = "writeFile"
    /\ byteLength(ops[2].call.content) = maxFileSize
    /\ ops[2].res = "ok"
    /\ FileData("/ws/a.js") = ops[2].call.content

\* C18: a successful writeFile leaves the file holding exactly the content written
\* and its directory created, and a readFile of the same path that follows it
\* directly returns that content.
C18_WriteThenReadRoundTrip ==
    /\ [][\A o \in OpIds :
            (ops[o].pc = "w_write" /\ Steps(o))
            => /\ ops'[o].res = "ok"
               /\ fs'[ops[o].safePath] = FileNode(ops[o].call.content)
               /\ PathDirname(ops[o].safePath) \in dirs]_vars
    /\ [](\A o \in OpIds :
            (/\ o + 1 \in OpIds
             /\ ops[o].call.m = "writeFile" /\ ops[o].res = "ok"
             /\ ops[o + 1].call.m = "readFile" /\ ops[o + 1].pc = "done"
             /\ ResolvedOf(o + 1) = ResolvedOf(o))
            => /\ ops[o + 1].res = "ok"
               /\ ops[o + 1].data = ops[o].call.content)

\* C18 witness: a write into a directory that did not exist, then a read of the
\* same file returning what was written; and a write over existing content.
C18_Witness ==
    \/ /\ ops[1].call.m = "writeFile" /\ ops[1].call.filePath = "sub/c.js"
       /\ ops[2].call.m = "readFile" /\ ops[2].call.filePath = "sub/c.js"
       /\ ops[2].res = "ok" /\ ops[2].data = "q"
    \/ /\ ops[1].call.m = "writeFile" /\ ops[1].call.filePath = "a.js"
       /\ ops[2].call.m = "readFile" /\ ops[2].call.filePath = "a.js"
       /\ ops[2].res = "ok" /\ ops[2].data = "q"

\* C19: a writeFile, run without interleaving, creates a backup exactly when
\* createBackup is set and the file existed: then exactly one new backup file named
\* <basename>.<timestamp>.backup appears, holding the previous content; otherwise
\* no backup file is created; in both cases the write succeeds.
C19_WriteBackupIffAskedAndExisting ==
    [][\A o \in OpIds :
          (ops[o].call.m = "writeFile" /\ Steps(o) /\ ops[o].pc # "idle")
          => CASE ops[o].pc = "w_access" ->
                      /\ DiskUnchanged
                      /\ ops'[o].pc = IF FileExists(ops[o].safePath)
                                      THEN "b_mkdir" ELSE "w_mkdir"
               [] ops[o].pc = "b_mkdir" ->
                      ops'[o].pc = "b_copy" /\ fs' = fs /\ backups' = backups
               [] ops[o].pc = "b_copy" ->
                      /\ ops'[o].pc = "w_mkdir"
                      /\ fs' = fs
                      /\ OneNewBackup(ops'[o].bname, FileData(ops[o].safePath))
                      /\ StartsWith(ops'[o].bname, PathBasename(ops[o].safePath) \o ".")
                      /\ EndsWith(ops'[o].bname, ".backup")
               [] ops[o].pc = "w_mkdir" ->
                      ops'[o].pc = "w_write" /\ fs' = fs /\ backups' = backups
               [] ops[o].pc = "w_write" ->
                      ops'[o].res = "ok" /\ backups' = backups
               [] OTHER -> TRUE]_vars

\* C20 as stated: a readFile whose path passes validation fails NotFound when the
\* file is absent and when it exists but cannot be read.
C20_ReadNotFoundWhenAbsentOrUnreadable ==
    [][\A o \in OpIds :
          (ops[o].pc = "r_access" /\ Steps(o) /\ ~CanRead(ops[o].safePath))
          => ops'[o].res = "NotFound"]_vars

\* C20 amended: a readFile whose path passes validation fails NotFound when the
\* file is absent; when the file exists but cannot be read it fails as well, with
\* the access error wrapped as a read failure and not as NotFound.
C20_ReadNotFoundOnlyWhenAbsent ==
    [][\A o \in OpIds :
          (ops[o].pc = "r_access" /\ Steps(o) /\ ~CanRead(ops[o].safePath))
          => /\ ops'[o].pc = "done"
             /\ DiskUnchanged
             /\ ops'[o].res = IF FileExists(ops[o].safePath) THEN "Unknown"
                              ELSE "NotFound"]_vars

\* C20 witness: a read of the unreadable file has failed as a read failure and a
\* read of an absent file as NotFound.
C20_Witness ==
    /\ ops[1].call.m = "readFile" /\ ops[1].call.filePath = "u.js"
    /\ ops[1].res = "Unknown"
    /\ ops[2].call.m = "readFile" /\ ops[2].call.filePath = "n.js"
    /\ ops[2].res = "NotFound"

\* C21: a readFile of an existing file fails SizeExceeded exactly when the file's
\* size is greater than maxFileSize; a readable file of at most maxFileSize bytes
\* is returned whole; no step of a read changes the files, directories or backups.
C21_ReadBoundedAndPure ==
    [][\A o \in OpIds :
          Steps(o) =>
          CASE ops[o].pc = "idle" /\ ops'[o].call.m = "readFile" -> DiskUnchanged
            [] ops[o].pc = "r_access" -> DiskUnchanged
            [] ops[o].pc = "r_stat" /\ FileExists(ops[o].safePath) ->
                   /\ DiskUnchanged
                   /\ IF byteLength(FileData(ops[o].safePath)) > maxFileSize
                      THEN ops'[o].pc = "done" /\ ops'[o].res = "SizeExceeded"
                      ELSE ops'[o].pc = "r_read"
            [] ops[o].pc = "r_read" /\ CanRead(ops[o].safePath) ->
                   /\ DiskUnchanged
                   /\ ops'[o].pc = "done" /\ ops'[o].res = "ok"
                   /\ ops'[o].data = FileData(ops[o].safePath)
            [] OTHER -> TRUE]_vars

\* C21 witness: a read of the file larger than maxFileSize has failed
\* SizeExceeded and a read of a file within maxFileSize has returned its bytes.
C21_Witness ==
    /\ \E o \in OpIds : /\ ops[o].call.m = "readFile"
                        /\ ops[o].call.filePath = "big.js"
                        /\ ops[o].res = "SizeExceeded"
    /\ \E o \in OpIds : /\ ops[o].call.m = "readFile"
                        /\ ops[o].call.filePath = "m.js"
                        /\ ops[o].res = "ok"
                        /\ ops[o].data = "abc"

(***************************************************************************)
(* streamWriteFile without interleaving: a call arrives only when no other *)
(* call is in flight.                                                      *)
(***************************************************************************)
InitStream ==
    /\ InitSolo
    /\ fs = [q \in {"/ws/a.js"} |-> FileNode("ab")]
    /\ dirs = {"/", "/ws"}
    /\ backups = [q \in {} |-> ""]
    /\ now = 0

SoloStreamArgs ==
    { <<"a.js", <<"x", "y">> >>, <<"a.js", <<"xy", "z">> >>, <<"a.js", <<>> >>,
      <<"new/d.js", <<"x", "y", "zwv">> >>, <<"a.js", <<"vwxyz">> >> }

NextStream ==
    \E o \in OpIds :
        \/ /\ NoneInFlight
           /\ \E a \in SoloStreamArgs : streamWriteFile(o, a[1], a[2])
        \/ streamWriteFile_mkdir(o) \/ streamWriteFile_open(o)
        \/ streamWriteFile_chunk(o) \/ streamWriteFile_flush(o)

SpecStream == InitStream /\ [][NextStream]_vars

\* What the step leaves at path p.
NodeAfter(p) == IF p \in DOMAIN fs' THEN fs'[p] ELSE NoNode

\* The pipeline of call o takes a step.
PipelineSteps(o) == ops[o].pc = "s_pipe" /\ Steps(o)

\* The chunks pass the monitor one by one, in order, each only when the running
\* total with it is within maxFileSize; the running total is the size of the
\* chunks passed.
ChunksInOrder(o) ==
    /\ ops'[o].pc = "s_pipe" =>
           /\ ops'[o].i \in {ops[o].i, ops[o].i + 1}
           /\ ops'[o].k = byteLength(ConcatChunks(ops[o].call.chunks, ops'[o].i))
           /\ ops'[o].k <= maxFileSize
    /\ ops'[o].res = "SizeExceeded" =>
           /\ ops[o].i < Len(ops[o].call.chunks)
           /\ byteLength(ConcatChunks(ops[o].call.chunks, ops[o].i + 1)) > maxFileSize
    /\ ops'[o].res = "ok" =>
           /\ byteLength(ConcatChunks(ops[o].call.chunks,
                                      Len(ops[o].call.chunks))) <= maxFileSize
           /\ NodeAfter(ops[o].safePath)
                  = FileNode(ConcatChunks(ops[o].call.chunks, Len(ops[o].call.chunks)))

\* C22 as stated: without interleaving, streamWrite consumes chunks in order with
\* a running total and leaves the concatenation of all chunks when the total
\* stays within maxFileSize; the first chunk that exceeds it aborts with
\* SizeExceeded and the file is left as the concatenation of the chunks consumed
\* before that chunk.
C22_StreamLeavesConsumedChunks ==
    [][\A o \in OpIds :
          PipelineSteps(o) =>
              /\ ChunksInOrder(o)
              /\ ops'[o].res = "SizeExceeded" =>
                     NodeAfter(ops[o].safePath)
                         = FileNode(ConcatChunks(ops[o].call.chunks, ops[o].i))]_vars

\* C22 amended: as above, but the file an aborted stream leaves is a prefix
\* (possibly empty, possibly shorter than what was consumed) of the
\* concatenation of the chunks consumed before the exceeding chunk: it holds
\* the first n of them for some n, never the exceeding chunk, and never the
\* previous content.
C22_StreamLeavesPrefixOfConsumedChunks ==
    [][\A o \in OpIds :
          PipelineSteps(o) =>
              /\ ChunksInOrder(o)
              /\ ops'[o].res = "SizeExceeded" =>
                     \E n \in 0 .. ops[o].i :
                         NodeAfter(ops[o].safePath)
                             = FileNode(ConcatChunks(ops[o].call.chunks, n))]_vars

\* C22 witness: the stream of three chunks was aborted at its third chunk and
\* the new file holds only the first of the two chunks consumed before it; another
\* stream has completed and its file holds all its chunks.
C22_Witness ==
    /\ \E o \in OpIds : /\ ops[o].call.chunks = <<"x", "y", "zwv">>
                        /\ ops[o].res = "SizeExceeded"
    /\ FileExists("/ws/new/d.js") /\ FileData("/ws/new/d.js") = "x"
    /\ \E o \in OpIds : /\ ops[o].call.chunks = <<"xy", "z">>
                        /\ ops[o].res = "ok"
    /\ FileData("/ws/a.js") = "xyz"

\* The files named by a result list of searchInFiles.
ResultFiles(results) == { results[n].file : n \in 1..Len(results) }

\* Search call o returns successfully in this step.
SearchReturns(o) ==
    /\ ops[o].call.m = "searchInFiles"
    /\ ops[o].pc # "done" /\ ops'[o].pc = "done" /\ ops'[o].res = "ok"

\* C23: a search with recursive=false returns only files that are immediate
\* children of the search directory; with recursive=true it also returns the
\* matching files of nested subdirectories, but of no hidden one.  Over the root,
\* where a.js and sub/c.js both hold the pattern, the non-recursive result is
\* exactly a.js and the recursive result holds both.
C23_RecursiveSearchDescends ==
    [][\A o \in OpIds :
          SearchReturns(o) =>
              LET w == ops[o].walk
                  found == ResultFiles(ops'[o].walk.results)
              IN  /\ ~w.recursive =>
                         \A f \in found :
                             PathDirname(PathResolve(normalizedAllowedDir, f))
                                 = ops[o].safePath
                  /\ \A f \in found : ~StartsWith(f, ".h/")
                  /\ (ops[o].safePath = normalizedAllowedDir /\ w.pattern = "b") =>
                         IF w.recursive
                         THEN {"a.js", "sub/c.js"} \subseteq found
                         ELSE found = {"a.js"}]_vars

\* C23 witness: a recursive and a non-recursive search of the root for the same
\* pattern have returned, the first with the nested file.
C23_Witness ==
    /\ ops[1].call.m = "searchInFiles" /\ ops[1].res = "ok"
    /\ ResultFiles(ops[1].walk.results) = {"a.js", "sub/c.js"}
    /\ ops[2].call.m = "searchInFiles" /\ ops[2].res = "ok"
    /\ ResultFiles(ops[2].walk.results) = {"a.js"}
    /\ ops[1].call.filePath = "" /\ ops[2].call.filePath = ""

(***************************************************************************)
(* The walker over a tree with symbolic links to directories: sub/up leads *)
(* back to the root (a cycle through an ancestor) and far leads to sub.    *)
(***************************************************************************)
InitLoop ==
    /\ InitGate
    /\ fs = [q \in {"/ws/a.js", "/ws/sub/c.js", "/ws/sub/up", "/ws/far"} |->
                CASE q = "/ws/a.js" -> FileNode("b")
                  [] q = "/ws/sub/c.js" -> FileNode("b")
                  [] q = "/ws/sub/up" -> LinkNode("/ws")
                  [] q = "/ws/far" -> LinkNode("/ws/sub")]
    /\ dirs = {"/", "/ws", "/ws/sub", "/ws/sub/in"}
    /\ backups = [q \in {} |-> ""]
    /\ now = 0
    /\ vConfig = DefaultConfig
    /\ vPath = "" /\ vIsFile = TRUE /\ vOut = Pending

LoopListArgs == {"sub/up", "far"}

LoopSearchArgs ==
    { <<"b", "", TRUE, FALSE>>, <<"b", "sub/up", TRUE, FALSE>>,
      <<"b", "far/up/far", TRUE, FALSE>>, <<"b", "sub", FALSE, FALSE>> }

NextLoop ==
    \E o \in OpIds :
        \/ \E a \in LoopListArgs : listFiles(o, a)
        \/ \E a \in LoopSearchArgs : searchInFiles(o, a[1], a[2], a[3], a[4], 0)
        \/ listFiles_readdir(o) \/ listFiles_stat(o)
        \/ searchInDirectorySafe_realpath(o) \/ searchInDirectorySafe_readdir(o)
        \/ searchInDirectorySafe_stat(o) \/ searchInFile_read(o)

SpecLoop == InitLoop /\ [][NextLoop]_vars

\* No element occurs twice in the sequence.
NoRepeat(seq) == \A m, n \in 1..Len(seq) : seq[m] = seq[n] => m = n

MatchFiles ==
    [q \in {"/ws/f01.js", "/ws/f02.js", "/ws/f03.js", "/ws/f04.js", "/ws/f05.js",
            "/ws/f06.js", "/ws/f07.js", "/ws/f08.js", "/ws/f09.js", "/ws/f10.js",
            "/ws/f11.js", "/ws/f12.js"} |->
        CASE q = "/ws/f01.js" -> "a.b"
          [] q = "/ws/f02.js" -> "axb"
          [] q = "/ws/f03.js" -> "$1"
          [] q = "/ws/f04.js" -> "(x)"
          [] q = "/ws/f05.js" -> "[0]"
          [] q = "/ws/f06.js" -> "\\d"
          [] q = "/ws/f07.js" -> "1\nb"
          [] q = "/ws/f08.js" -> "AB"
          [] q = "/ws/f09.js" -> "a*"
          [] q = "/ws/f10.js" -> "aa"
          [] q = "/ws/f11.js" -> "a|b"
          [] q = "/ws/f12.js" -> "^a"]

InitMatch ==
    /\ InitSolo
    /\ fs = [q \in DOMAIN MatchFiles |-> FileNode(MatchFiles[q])]
    /\ dirs = {"/", "/ws"}
    /\ backups = [q \in {} |-> ""]
    /\ now = 0

\* Pattern and ignoreCase of the searches.
MatchArgs ==
    { <<"$1", FALSE>>, <<".", FALSE>>, <<"a.b", FALSE>>, <<"A.B", TRUE>>, <<"a*", FALSE>>,
      <<"(", FALSE>>, <<"x)", FALSE>>, <<"[0", FALSE>>, <<"\\d", FALSE>>, <<"\\", FALSE>>,
      <<"a|b", FALSE>>, <<"^a", FALSE>>, <<"a$", FALSE>>, <<"ab", TRUE>>, <<"ab", FALSE>>,
      <<"?", FALSE>>, <<"", FALSE>> }

NextMatch ==
    \E o \in OpIds :
        \/ /\ NoneInFlight
           /\ \E a \in MatchArgs : searchInFiles(o, a[1], "", FALSE, a[2], 0)
        \/ searchInDirectorySafe_realpath(o) \/ searchInDirectorySafe_readdir(o)
        \/ searchInDirectorySafe_stat(o) \/ searchInFile_read(o)

SpecMatch == InitMatch /\ [][NextMatch]_vars

\* The line holds the pattern as a substring.
ContainsText(line, pattern, ignoreCase) ==
    IF ignoreCase THEN Includes(toLowerCase(line), toLowerCase(pattern))
    ELSE Includes(line, pattern)

\* The matches that the step adds to the results of search o.
NewMatches(o) ==
    LET before == ops[o].walk.results
        after == ops'[o].walk.results
    IN  IF Len(after) > Len(before) THEN after[Len(after)].matches ELSE <<>>

\* C25: the pattern is literal text.  Whatever the pattern, metacharacters
\* included, the lines reported for a file are exactly its lines that hold the
\* pattern as a substring, letter case ignored only with ignoreCase.
C25_PatternIsLiteralText ==
    [][\A o \in OpIds :
          (ops[o].pc = "q_read" /\ Steps(o)) =>
              LET w == ops[o].walk
                  fullPath == PathJoin(w.currentDir, Head(w.entries))
                  lines == SplitLines(BytesAt(fullPath), 1, "")
                  found == NewMatches(o)
              IN  /\ { found[n].lineNumber : n \in 1..Len(found) }
                         = { n \in 1..Len(lines) :
                                 ContainsText(lines[n], w.pattern, w.ignoreCase) }
                  /\ \A n \in 1..Len(found) :
                         found[n].line = lines[found[n].lineNumber]]_vars

\* C25 witness: the search for "$1" has returned the one file that holds it and
\* the search for "." the one file with a dot.
C25_Witness ==
    /\ ops[1].call.content = "$1" /\ ops[1].res = "ok"
    /\ ResultFiles(ops[1].walk.results) = {"f03.js"}
    /\ ops[2].call.content = "." /\ ops[2].res = "ok"
    /\ ResultFiles(ops[2].walk.results) = {"f01.js"}

\* The development files of the default configuration's documentation.
DevelopmentFiles ==
    { ".gitignore", ".env.template", ".env.example", ".env.sample",
      "Dockerfile", "Makefile", "package.json", "tsconfig.json" }

\* C26: under the default configuration the development files at the root pass
\* validation as file operations; a file name at the root that starts with
\* ".env." is denied unless it ends with .template, .example or .sample; and a
\* name without extension is never refused for its extension.
C26_DevelopmentFilesPass ==
    (vOut # Pending /\ vIsFile) =>
        /\ vPath \in DevelopmentFiles => vOut.err = "none" /\ vOut.path = "/ws/" \o vPath
        /\ (StartsWith(vPath, ".env.") /\ ~Includes(vPath, "/")) =>
               (vOut.err = "Blacklisted"
                    <=> ~(\/ EndsWith(vPath, ".template")
                          \/ EndsWith(vPath, ".example")
                          \/ EndsWith(vPath, ".sample")))
        /\ PathExtname(PathBasename(vOut.path)) = "" => vOut.err # "ExtensionNotAllowed"

\* C26 witness: .env.example has passed validation as a file operation and
\* .env.local would not: the extensionless Makefile passes too.
C26_Witness ==
    /\ vIsFile /\ vPath = ".env.example" /\ vOut.err = "none"
    /\ validatePath(".env.local", TRUE).err = "Blacklisted"
    /\ validatePath("Makefile", TRUE).err = "none"

(***************************************************************************)
(* partialWriteFile calls racing on one file: a.js holds "ab", one call    *)
(* replaces "a" and the other "b".                                         *)
(***************************************************************************)
InitRace ==
    /\ InitGate
    /\ fs = [q \in {"/ws/a.js"} |-> FileNode("ab")]
    /\ dirs = {"/", "/ws"}
    /\ backups = [q \in {} |-> ""]
    /\ now = 0
    /\ vConfig = DefaultConfig
    /\ vPath = "" /\ vIsFile = TRUE /\ vOut = Pending

RacePartialArgs == { <<"a.js", "a", "c">>, <<"a.js", "b", "d">> }

NextRace ==
    \E o \in OpIds :
        \/ \E a \in RacePartialArgs : partialWriteFile(o, a[1], a[2], a[3])
        \/ partialWriteFile_read(o) \/ partialWriteFile_write(o)
        \/ createBackup_mkdir(o) \/ createBackup_copyFile(o)

SpecRace == InitRace /\ [][NextRace]_vars

\* Call o is a partialWriteFile that replaces old by new.
Replaces(o, old, new) ==
    /\ ops[o].call.m = "partialWriteFile"
    /\ ops[o].call.oldContent = old /\ ops[o].call.content = new

\* C27: the lost update is reachable.  A partialWrite that has read the file
\* writes the content it computed from what it read, whatever the file holds at
\* the time of the write: what another partialWrite wrote in between is discarded,
\* and both calls succeed.
C27_LostUpdateReachable ==
    [][\A o \in OpIds :
          (ops[o].pc = "p_write" /\ Steps(o)) =>
              /\ ops'[o].res = "ok"
              /\ NodeAfter(ops[o].safePath).data = ops[o].upd
              /\ ops[o].upd = ReplaceOnce(ops[o].data, ops[o].call.oldContent,
                                          ops[o].call.content)]_vars

\* C27 witness: at limit 2 the calls replacing "a" by "c" and "b" by "d" in "ab"
\* have both succeeded and the file holds "ad": the first call's replacement is
\* gone.
C27_Witness ==
    /\ maxConcurrentOperations = 2
    /\ Replaces(1, "a", "c") /\ ops[1].res = "ok"
    /\ Replaces(2, "b", "d") /\ ops[2].res = "ok"
    /\ FileData("/ws/a.js") = "ad"

\* The backup of partialWriteFile call o is copied in this step.
PartialBackupCopied(o) ==
    /\ ops[o].call.m = "partialWriteFile"
    /\ ops[o].pc = "b_copy" /\ ops'[o].pc = "p_write"

\* C30 as stated: under any interleaving the backup taken by a partialWrite holds
\* exactly the content from which the call computed its replacement.
C30_BackupHoldsContentRead ==
    [][\A o \in OpIds :
          PartialBackupCopied(o) => backups'[ops[o].bname] = ops[o].data]_vars

\* C30 amended: the backup taken by a partialWrite holds the content of the file
\* at the time of the copy.  That is the content from which the call computed its
\* replacement when no other call has written the file since this call read it;
\* the file after the call is the content read with the matched span replaced, and
\* hence the backup with the span replaced only in that case.
C30_BackupHoldsContentAtCopy ==
    [][\A o \in OpIds :
          /\ PartialBackupCopied(o) =>
                 /\ backups'[ops[o].bname] = FileData(ops[o].safePath)
                 /\ FileData(ops[o].safePath) = ops[o].data =>
                        backups'[ops[o].bname] = ops[o].data
          /\ (ops[o].pc = "p_write" /\ Steps(o)) =>
                 /\ NodeAfter(ops[o].safePath).data
                        = ReplaceOnce(ops[o].data, ops[o].call.oldContent,
                                      ops[o].call.content)
                 /\ backups[ops[o].bname] = ops[o].data =>
                        NodeAfter(ops[o].safePath).data
                            = ReplaceOnce(backups[ops[o].bname], ops[o].call.oldContent,
                                          ops[o].call.content)]_vars

\* C30 witness: the call replacing "a" by "c" read "ab" and is about to write
\* "cb", and its backup holds "ad", which the other call wrote in between.
C30_Witness ==
    \E o \in OpIds :
        /\ Replaces(o, "a", "c") /\ ops[o].pc = "p_write"
        /\ ops[o].data = "ab" /\ ops[o].upd = "cb"
        /\ ops[o].bname \in DOMAIN backups /\ backups[ops[o].bname] = "ad"
        /\ FileData("/ws/a.js") = "ad"

\* The call names a path that validatePath refuses.
HasInvalidPath(c) ==
    \/ validatePath(c.filePath, TRUE).err # "none"
    \/ c.m = "renameFile" /\ validatePath(c.newPath, TRUE).err # "none"

\* C28: a gated method tests and takes its slot before it validates its paths.  A
\* call with an invalid path that arrives at a full gate settles as
\* ResourceExhausted; one that arrives at a gate that is not full is admitted,
\* fails with the validation error and has released its slot when it settles; in
\* neither case is the disk touched.
C28_SlotBeforeValidation ==
    [][\A o \in OpIds :
          (/\ ops[o].pc = "idle" /\ ops'[o].pc # "idle"
           /\ ops'[o].call.m \in GatedMethods
           /\ HasInvalidPath(ops'[o].call))
          => /\ ops'[o].pc = "done"
             /\ activeOperations' = activeOperations
             /\ DiskUnchanged
             /\ IF activeOperations >= maxConcurrentOperations
                THEN ops'[o].res = "ResourceExhausted" /\ ~freed'
                ELSE ops'[o].res \in DeniedKinds /\ freed']_vars

\* C28 witness: at limit 1, with the first call in flight, a partial write of a
\* file with a disallowed extension was rejected as ResourceExhausted.
C28_Witness ==
    /\ maxConcurrentOperations = 1
    /\ InFlight(1)
    /\ ops[2].call.m = "partialWriteFile" /\ ops[2].call.filePath = "a.exe"
    /\ validatePath("a.exe", TRUE).err = "ExtensionNotAllowed"
    /\ ops[2].res = "ResourceExhausted"

\* C29: a rename never replaces a file that exists at the destination at the
\* moment of the move, whatever ran between its destination check and its move.
C29_RenameNeverOverwrites ==
    [][\A o \in OpIds :
          (ops[o].pc = "n_rename" /\ Steps(o) /\ FileExists(ops[o].safeNew))
          => /\ ops'[o].res # "ok"
             /\ NodeAfter(ops[o].safeNew) = NodeAt(ops[o].safeNew)]_vars

(***************************************************************************)
(* The directory cap: a search over a tree of more directories than the    *)
(* cap allows dequeues (ten per directory, three levels deep), so that     *)
(* directories are still queued when the cap is reached, and with a link   *)
(* 0/up that leads back to the root.  One search per run.                  *)
(***************************************************************************)
\* The directories below the root: /ws/0 .. /ws/9, /ws/0/0 .. /ws/9/9/9.
CapDirs ==
    LET level1 == {"/ws/" \o a : a \in Digits}
        level2 == {d \o "/" \o a : d \in level1, a \in Digits}
        level3 == {d \o "/" \o a : d \in level2, a \in Digits}
    IN  level1 \cup level2 \cup level3

InitCap ==
    /\ InitSolo
    /\ fs = [q \in {"/ws/a.js", "/ws/0/c.js", "/ws/0/up"} |->
                IF q = "/ws/0/up" THEN LinkNode("/ws") ELSE FileNode("b")]
    /\ dirs = {"/", "/ws"} \cup CapDirs
    /\ backups = [q \in {} |-> ""]
    /\ now = 0

CapSearchArgs ==
    { <<"b", "", TRUE, FALSE>>, <<"b", "", FALSE, FALSE>>, <<"b", "nodir", TRUE, FALSE>>,
      <<"b", "0/0", TRUE, FALSE>>, <<"b", "0/up", TRUE, FALSE>> }

WalkStep(o) ==
    \/ searchInDirectorySafe_realpath(o) \/ searchInDirectorySafe_readdir(o)
    \/ searchInDirectorySafe_stat(o) \/ searchInFile_read(o)

NextCap ==
    \E o \in OpIds :
        \/ /\ \A q \in OpIds : ops[q].pc = "idle"
           /\ \E a \in CapSearchArgs : searchInFiles(o, a[1], a[2], a[3], a[4], 0)
        \/ WalkStep(o)

SpecCap == InitCap /\ [][NextCap]_vars

\* Search call o takes the next directory off the queue in this step.
Dequeues(o) == InFlight(o) /\ Steps(o) /\ ops'[o].pc = "q_realpath"

\* Sequence s is an initial part of sequence t.
IsPrefix(s, t) == Len(s) <= Len(t) /\ SubSeq(t, 1, Len(s)) = s

\* What is left of search o: the dequeues the cap still allows, then the awaits
\* left for the current directory (realpath, readdir, a stat and a read per file).
Variant(o) ==
    LET w == ops[o].walk
    IN  << maxDirectories - w.processedCount,
           CASE ops[o].pc = "q_realpath" -> 2
             [] ops[o].pc = "q_readdir" -> 1
             [] OTHER -> 0,
           CASE ops[o].pc = "q_stat" -> 2 * Len(w.entries)
             [] ops[o].pc = "q_read" -> 2 * Len(w.entries) - 1
             [] OTHER -> 0 >>

\* Triple a of naturals comes before triple b in the lexicographic order.
LexLess(a, b) ==
    \/ a[1] < b[1]
    \/ a[1] = b[1] /\ a[2] < b[2]
    \/ a[1] = b[1] /\ a[2] = b[2] /\ a[3] < b[3]

\* C31: a search dequeues at most maxDirectories (1000) directories, a dequeued
\* directory counting whether it is then enumerated or skipped; a search that
\* returns with directories still queued does so only when the count has reached
\* the cap, and then as a normal result holding the matches collected so far;
\* every search terminates, on a tree with a link back to the root too: a search
\* in flight always has a step to take, and every step either returns or takes it
\* strictly down a well-founded order.
C31_DirectoryCapStopsSearch ==
    /\ [](\A o \in OpIds :
             /\ ops[o].walk.processedCount <= maxDirectories
             /\ Len(ops[o].walk.enumerated) <= ops[o].walk.processedCount
             /\ InFlight(o) =>
                    /\ ops[o].pc \in {"q_realpath", "q_readdir", "q_stat", "q_read"}
                    /\ ops[o].pc \in {"q_stat", "q_read"} => Len(ops[o].walk.entries) > 0
                    /\ \A n \in 1..3 : Variant(o)[n] \in Nat)
    /\ [][\A o \in OpIds :
             /\ Dequeues(o) =>
                    /\ ops[o].walk.processedCount < maxDirectories
                    /\ ops'[o].walk.processedCount = ops[o].walk.processedCount + 1
             /\ (InFlight(o) /\ Steps(o) /\ ~Dequeues(o)) =>
                    \/ ops'[o].walk.processedCount = ops[o].walk.processedCount
                    \/ ops'[o].pc = "done" /\ ops'[o].res = "ok"
             /\ (SearchReturns(o) /\ Len(ops[o].walk.directoriesToProcess) > 0) =>
                    /\ ops[o].walk.processedCount = maxDirectories
                    /\ IsPrefix(ops[o].walk.results, ops'[o].walk.results)
             /\ (InFlight(o) /\ Steps(o)) =>
                    \/ ops'[o].pc = "done" /\ ops'[o].res = "ok"
                    \/ LexLess(Variant(o)', Variant(o))]_vars

\* C31 witness: a recursive search of the root is at its thousandth directory
\* with 111 directories still queued, holding the matches found on the way.
C31_Witness ==
    \E o \in OpIds :
        /\ ops[o].pc = "q_readdir"
        /\ ops[o].walk.processedCount = maxDirectories
        /\ Len(ops[o].walk.directoriesToProcess) = 111
        /\ ResultFiles(ops[o].walk.results) = {"a.js", "0/c.js"}

(***************************************************************************)
(* validatePath of the root itself under other configurations: workspace   *)
(* directories of various names (MCP_WORKSPACE_DIR) and various            *)
(* allowed-extension lists.                                                *)
(***************************************************************************)
RootConfigs ==
    [allowedDirectory : {"/ws", "/srv/v1.2", "/srv/app.exe", "/srv/secrets", "/srv/.git"},
     allowedExtensions : {allowedExtensions, {}, {".js"}, {".js", ""}}]

RootInputs == {"", ".", "./", "a/..", "a.js", "../x"}

InitRoot ==
    /\ InitGate
    /\ InitDisk
    /\ vConfig \in RootConfigs
    /\ vPath \in RootInputs
    /\ vIsFile \in BOOLEAN
    /\ vOut = Pending

ValidateRoot ==
    /\ vOut = Pending
    /\ vOut' = validatePathOf(vConfig, vPath, vIsFile)
    /\ UNCHANGED <<maxConcurrentOperations, gateVars, diskVars, vConfig, vPath, vIsFile>>

NextRoot == ValidateRoot

SpecRoot == InitRoot /\ [][NextRoot]_vars

\* C32: validatePath of the empty string or of '.' succeeds and returns the root,
\* as a file operation as well as a directory operation, whatever the root
\* directory's name and the allowed-extension list are.
C32_RootSkipsBothChecks ==
    (vOut # Pending /\ vPath \in {"", "."}) =>
        /\ vOut.err = "none"
        /\ vOut.path = vConfig.allowedDirectory

\* Under the default configuration validatePathOf is validatePath.
DefaultConfigAgrees ==
    (vOut # Pending /\ vConfig = DefaultConfig) => vOut = validatePath(vPath, vIsFile)

\* partialWriteFile call o fails in this step on one of its three content checks.
PartialCheckFails(o) ==
    /\ ops[o].call.m = "partialWriteFile" /\ Steps(o)
    /\ ops'[o].res \in {"NoMatch", "AmbiguousMatch", "SizeExceeded"}

\* C33: partialWrite checks NoMatch, then AmbiguousMatch, then SizeExceeded, all
\* before it takes the backup and writes.  A fragment that is absent fails
\* NoMatch; one with a second occurrence fails AmbiguousMatch also when replacing
\* the first occurrence would exceed the size limit; one with a single occurrence
\* whose replacement exceeds the limit fails SizeExceeded.  Each of the three
\* failures happens at the step that follows the read, before any backup step of
\* the call, and leaves every file and the backups as they were.
C33_FailedChecksLeaveFileAndBackups ==
    [][\A o \in OpIds :
          /\ PartialCheckFails(o) => ops[o].pc = "p_read" /\ DiskUnchanged
          /\ (ops[o].call.m = "partialWriteFile" /\ ops[o].pc = "p_read" /\ Steps(o)) =>
                 LET cur == FileData(ops[o].safePath)
                     old == ops[o].call.oldContent
                     first == IndexOf(cur, old, 0)
                     second == IndexOf(cur, old, first + 1)
                     tooLong == byteLength(SubSeq(cur, 1, first) \o ops[o].call.content
                                           \o SubSeq(cur, first + Len(old) + 1, Len(cur)))
                                    > maxFileSize
                 IN  /\ first = -1 => ops'[o].res = "NoMatch"
                     /\ (first # -1 /\ second # -1) => ops'[o].res = "AmbiguousMatch"
                     /\ (first # -1 /\ second = -1 /\ tooLong) =>
                            ops'[o].res = "SizeExceeded"
                     /\ (first # -1 /\ second = -1 /\ ~tooLong) =>
                            ops'[o].pc = "b_mkdir" /\ DiskUnchanged]_vars

\* C33 witness: on a file holding "ab" one call has failed NoMatch on "aa" and
\* another SizeExceeded replacing "a" by "ccc"; the file still holds "ab" and
\* there is no backup.
C33_Witness ==
    /\ ops[1].call.oldContent = "aa" /\ ops[1].res = "NoMatch"
    /\ ops[2].call.oldContent = "a" /\ ops[2].call.content = "ccc"
    /\ ops[2].res = "SizeExceeded"
    /\ FileData("/ws/a.js") = "ab"
    /\ DOMAIN backups = {}

(***************************************************************************)
(* Search over a workspace that holds what the filters are for: protected  *)
(* directories, an environment file, a system file, a file with a foreign *)
(* extension, a file over the size limit, a link to a file and a link lnk  *)
(* to the secrets directory.  One search or listing at a time.             *)
(***************************************************************************)
FilterFiles ==
    { "/ws/a.js", "/ws/secrets/k.txt", "/ws/node_modules/m.js", "/ws/.git/config",
      "/ws/.env.local", "/ws/.DS_Store", "/ws/big.js", "/ws/x.exe", "/ws/l.js",
      "/ws/lnk" }

InitFilter ==
    /\ InitSolo
    /\ fs = [q \in FilterFiles |->
                CASE q = "/ws/big.js" -> FileNode("bbbb")
                  [] q = "/ws/l.js" -> LinkNode("/ws/a.js")
                  [] q = "/ws/lnk" -> LinkNode("/ws/secrets")
                  [] OTHER -> FileNode("b")]
    /\ dirs = {"/", "/ws", "/ws/secrets", "/ws/node_modules", "/ws/.git"}
    /\ backups = [q \in {} |-> ""]
    /\ now = 0

FilterSearchArgs ==
    { <<"b", "", TRUE, FALSE>>, <<"b", "", FALSE, FALSE>>, <<"b", "secrets", FALSE, FALSE>>,
      <<"b", "node_modules", TRUE, FALSE>>, <<"b", ".git", FALSE, FALSE>>,
      <<"b", "lnk", FALSE, FALSE>> }

FilterListArgs == {"", ".", "secrets", "node_modules", ".git", "lnk", "../out", "nodir", "a.js"}

NextFilter ==
    \E o \in OpIds :
        \/ /\ NoneInFlight
           /\ \/ \E a \in FilterSearchArgs : searchInFiles(o, a[1], a[2], a[3], a[4], 0)
              \/ \E a \in FilterListArgs : listFiles(o, a)
        \/ WalkStep(o)
        \/ listFiles_readdir(o) \/ listFiles_stat(o)

SpecFilter == InitFilter /\ [][NextFilter]_vars

\* The file that a reported root-relative name stands for.
FileBehind(name) == Canonical(PathJoin(normalizedAllowedDir, name), MaxLinkHops)

ProtectedDirs == {".git/", "node_modules/", "secrets/"}

\* A file that search may report: a regular file with an allowed extension, within
\* the size limit, whose path relative to the root matches no blacklist entry and
\* does not lie under a protected directory.
Reportable(name) ==
    LET real == FileBehind(name)
        rel == PathRelative(normalizedAllowedDir, real)
    IN  /\ NodeAt(PathJoin(normalizedAllowedDir, name)).kind = "file"
        /\ isFileExtensionAllowed(PathBasename(real))
        /\ ~isPathBlacklisted(rel)
        /\ \A d \in ProtectedDirs : ~StartsWith(rel, d)
        /\ PathBasename(real) # ".env.local"
        /\ byteLength(FileData(real)) <= maxFileSize

\* C34: every file that a search reports is a regular file with an allowed
\* extension, of at most maxFileSize bytes, whose path relative to the root
\* matches no blacklist entry; no file under .git/, node_modules/ or secrets/ and
\* no .env.local is ever reported; and a search over files that fail these tests
\* still returns normally.
C34_SearchReportsOnlyPermittedFiles ==
    \A o \in OpIds :
        ops[o].call.m = "searchInFiles" =>
            /\ \A f \in ResultFiles(ops[o].walk.results) : Reportable(f)
            /\ ops[o].pc = "done" => ops[o].res = "ok"

\* The directory that listFiles call o lists, links resolved.
ListedDir(o) == Canonical(WalkStart(ops[o].call.filePath).path, MaxLinkHops)

\* The immediate children of directory d that are regular files with an allowed
\* extension and a name that matches no blacklist entry.
ListableChildren(d) ==
    {PathBasename(p) : p \in {q \in DOMAIN fs : /\ fs[q].kind \in {"file", "locked"}
                                                /\ PathDirname(q) = d
                                                /\ isFileExtensionAllowed(PathBasename(q))
                                                /\ ~isPathBlacklisted(PathBasename(q))}}

\* C35: a listing that has returned holds exactly one entry, with the file's size,
\* for each immediate child of the directory that is a regular file with an
\* allowed extension and a name matching no blacklist entry, and nothing else (no
\* subdirectory, no link, no file of a nested directory); a listing of a directory
\* outside the root fails as access denied at once, before any readdir.
C35_ListReturnsPermittedChildren ==
    /\ [](\A o \in OpIds :
            (ops[o].call.m = "listFiles" /\ ops[o].pc = "done") =>
                LET infos == ops[o].walk.results
                    names == {infos[n].name : n \in 1..Len(infos)}
                    d == ListedDir(o)
                IN  IF WalkStart(ops[o].call.filePath).err # "none"
                    THEN ops[o].res = "OutsideRoot" /\ infos = <<>>
                    ELSE IF d \notin dirs THEN ops[o].res = "Unknown" /\ infos = <<>>
                    ELSE /\ ops[o].res = "ok"
                         /\ names = ListableChildren(d)
                         /\ Len(infos) = Cardinality(names)
                         /\ \A n \in 1..Len(infos) :
                                infos[n].size
                                    = byteLength(FileData(PathJoin(d, infos[n].name))))
    /\ [][\A o \in OpIds :
            (Steps(o) /\ ops'[o].call.m = "listFiles" /\ ops'[o].res = "OutsideRoot") =>
                ops[o].pc = "idle" /\ DiskUnchanged]_vars

\* C35 witness: the listing of the root has returned a.js and big.js (the file over
\* the size limit, with its size), and the listing of ../out was denied.
C35_Witness ==
    /\ ops[1].call.m = "listFiles" /\ ops[1].call.filePath = "" /\ ops[1].res = "ok"
    /\ {ops[1].walk.results[n] : n \in 1..Len(ops[1].walk.results)}
           = {[name |-> "a.js", size |-> 1], [name |-> "big.js", size |-> 4]}
    /\ ops[2].call.m = "listFiles" /\ ops[2].call.filePath = "../out"
    /\ ops[2].res = "OutsideRoot"

\* The path under which a caller would read the file that listing o reports as name.
ListedPath(o, name) ==
    IF ops[o].call.filePath \in {"", "."} THEN name
    ELSE ops[o].call.filePath \o "/" \o name

\* C36: every file that a listing returns is one that read accepts: its path
\* passes validatePath as a file operation; listing secrets, node_modules or .git
\* reveals no file that read denies as blacklisted.
C36_ListedFilesPassValidation ==
    \A o \in OpIds :
        ops[o].call.m = "listFiles" =>
            \A n \in 1..Len(ops[o].walk.results) :
                validatePath(ListedPath(o, ops[o].walk.results[n].name), TRUE).err = "none"

(***************************************************************************)
(* searchInFiles with context lines over files of up to three lines, one   *)
(* search at a time.                                                       *)
(***************************************************************************)
ContextFiles ==
    [q \in {"/ws/c1.js", "/ws/c2.js", "/ws/c3.js", "/ws/c4.js", "/ws/c5.js", "/ws/c6.js"} |->
        CASE q = "/ws/c1.js" -> "a\nb"
          [] q = "/ws/c2.js" -> "\nb\n"
          [] q = "/ws/c3.js" -> "a\n\n"
          [] q = "/ws/c4.js" -> "\n\na"
          [] q = "/ws/c5.js" -> "b\nb"
          [] q = "/ws/c6.js" -> "b"]

InitContext ==
    /\ InitSolo
    /\ fs = [q \in DOMAIN ContextFiles |-> FileNode(ContextFiles[q])]
    /\ dirs = {"/", "/ws"}
    /\ backups = [q \in {} |-> ""]
    /\ now = 0

\* Pattern and contextLines of the searches (the empty pattern matches every line).
ContextArgs == {"b", ""} \X {0, 1, 2, 3}

NextContext ==
    \E o \in OpIds :
        \/ /\ NoneInFlight
           /\ \E a \in ContextArgs : searchInFiles(o, a[1], "", FALSE, FALSE, a[2])
        \/ WalkStep(o)

SpecContext == InitContext /\ [][NextContext]_vars

\* C37: a match reported at the 0-based line index i of a file of n lines has
\* lineNumber i + 1 and holds that line; with contextLines = c > 0 its context's
\* before is the min(c, i) lines just before the match and its after the
\* min(c, n - 1 - i) lines just after it, both in file order; with contextLines = 0
\* the match has no context.
C37_MatchLineNumberAndContext ==
    [][\A o \in OpIds :
          (ops[o].pc = "q_read" /\ Steps(o)) =>
              LET w == ops[o].walk
                  c == w.contextLines
                  lines == SplitLines(BytesAt(PathJoin(w.currentDir, Head(w.entries))),
                                      1, "")
                  n == Len(lines)
                  found == NewMatches(o)
              IN  \A k \in 1..Len(found) :
                      LET m == found[k]
                          i == m.lineNumber - 1
                      IN  /\ i \in 0..(n - 1)
                          /\ m.line = lines[i + 1]
                          /\ c = 0 => DOMAIN m = {"lineNumber", "line"}
                          /\ c > 0 =>
                                 /\ DOMAIN m = {"lineNumber", "line", "context"}
                                 /\ Len(m.context.before) = Min(c, i)
                                 /\ Len(m.context.after) = Min(c, n - 1 - i)
                                 /\ \A h \in 1..Len(m.context.before) :
                                        m.context.before[h]
                                            = lines[i - Len(m.context.before) + h]
                                 /\ \A h \in 1..Len(m.context.after) :
                                        m.context.after[h] = lines[i + 1 + h]]_vars

\* The matches that search o has reported for the file.
MatchesIn(o, file) ==
    { ops[o].walk.results[n].matches :
          n \in {h \in 1..Len(ops[o].walk.results) : ops[o].walk.results[h].file = file} }

\* C37 witness: a search of the empty pattern with two context lines has reported
\* the third line of c3.js with both lines before it, in order, and nothing after,
\* and its first line with both lines after it; a search of "b" with one context
\* line has reported the second line of c2.js between its neighbours.
C37_Witness ==
    /\ ops[1].call.content = "" /\ ops[1].res = "ok"
    /\ \E ms \in MatchesIn(1, "c3.js") :
           /\ Len(ms) = 3
           /\ ms[3] = [lineNumber |-> 3, line |-> "",
                       context |-> [before |-> <<"a", "">>, after |-> <<>>]]
           /\ ms[1].context = [before |-> <<>>, after |-> <<"", "">>]
    /\ ops[2].call.content = "b" /\ ops[2].res = "ok"
    /\ MatchesIn(2, "c2.js")
           = { << [lineNumber |-> 2, line |-> "b",
                   context |-> [before |-> <<"">>, after |-> <<"">>]] >> }

(***************************************************************************)
(* Backups of same-named files: a.js in the root and in sub, written and   *)
(* deleted with backup by calls that may run at the same time.             *)
(***************************************************************************)
InitBackup ==
    /\ InitGate
    /\ fs = [q \in {"/ws/a.js", "/ws/sub/a.js"} |->
                IF q = "/ws/a.js" THEN FileNode("ab") ELSE FileNode("cd")]
    /\ dirs = {"/", "/ws", "/ws/sub"}
    /\ backups = [q \in {} |-> ""]
    /\ now = 0
    /\ vConfig = DefaultConfig
    /\ vPath = "" /\ vIsFile = TRUE /\ vOut = Pending

BackupWriteArgs == { <<"a.js", "x", TRUE>>, <<"sub/a.js", "y", TRUE>> }

BackupDeleteArgs == { <<"a.js", TRUE>> }

NextBackup ==
    \E o \in OpIds :
        \/ \E a \in BackupWriteArgs : writeFile(o, a[1], a[2], a[3])
        \/ \E a \in BackupDeleteArgs : deleteFile(o, a[1], a[2])
        \/ createBackup_mkdir(o) \/ createBackup_copyFile(o)
        \/ writeFile_access(o) \/ writeFile_mkdir(o) \/ writeFile_write(o)
        \/ deleteFile_access(o) \/ deleteFile_unlink(o)

SpecBackup == InitBackup /\ [][NextBackup]_vars

\* C38: backups are never lost.  A backup file that exists keeps its bytes and
\* stays in place whatever happens later, and every backup that is taken adds a
\* new file under .backups, also when a backup of the same file or of a file of
\* the same name from another directory is taken at the same clock reading.
C38_BackupsNeverLost ==
    /\ [][\A b \in DOMAIN backups :
             b \in DOMAIN backups' /\ backups'[b] = backups[b]]_vars
    /\ [][\A o \in OpIds :
             (ops[o].pc = "b_copy" /\ Steps(o) /\ CanRead(ops[o].safePath)) =>
                 /\ ops[o].bname \notin DOMAIN backups
                 /\ ops[o].bname \in DOMAIN backups']_vars

(***************************************************************************)
(* Every mutating operation next to the others on one file: writes,        *)
(* stream writes (one of them over the limit), a partial write, a delete   *)
(* and a rename of a.js, in any interleaving.                              *)
(***************************************************************************)
SizeWriteArgs == { <<"a.js", "abc", TRUE>> }

SizeStreamArgs == { <<"a.js", <<"xy", "z", "w">> >> }

SizePartialArgs == { <<"a.js", "a", "cc">> }

SizeDeleteArgs == { <<"a.js", TRUE>> }

SizeRenameArgs == { <<"a.js", "b.js", TRUE>> }

NextSize ==
    \E o \in OpIds :
        \/ \E a \in SizeWriteArgs : writeFile(o, a[1], a[2], a[3])
        \/ \E a \in SizeStreamArgs : streamWriteFile(o, a[1], a[2])
        \/ \E a \in SizePartialArgs : partialWriteFile(o, a[1], a[2], a[3])
        \/ \E a \in SizeDeleteArgs : deleteFile(o, a[1], a[2])
        \/ \E a \in SizeRenameArgs : renameFile(o, a[1], a[2], a[3])
        \/ createBackup_mkdir(o) \/ createBackup_copyFile(o)
        \/ writeFile_access(o) \/ writeFile_mkdir(o) \/ writeFile_write(o)
        \/ partialWriteFile_read(o) \/ partialWriteFile_write(o)
        \/ deleteFile_access(o) \/ deleteFile_unlink(o)
        \/ renameFile_accessOld(o) \/ renameFile_accessNew(o)
        \/ renameFile_mkdir(o) \/ renameFile_rename(o)
        \/ streamWriteFile_mkdir(o) \/ streamWriteFile_open(o) \/ streamWriteFile_chunk(o)
        \/ streamWriteFile_flush(o)

SpecSize == InitRace /\ [][NextSize]_vars

\* C39: from a workspace whose files are all of at most maxFileSize bytes, every
\* file under the root and every backup is of at most maxFileSize bytes after any
\* interleaving of write, stream write (aborted ones too), partial write, delete
\* and rename.
C39_AllFilesWithinLimit ==
    /\ \A p \in DOMAIN fs :
           (IsInsideRoot(p) /\ fs[p].kind \in {"file", "locked"}) =>
               byteLength(fs[p].data) <= maxFileSize
    /\ \A b \in DOMAIN backups : byteLength(backups[b]) <= maxFileSize

\* C39 witness: a stream write was aborted over the limit while another call wrote
\* the same file; the file is exactly maxFileSize bytes and a backup exists.
C39_Witness ==
    /\ \E o \in OpIds : ops[o].call.m = "streamWriteFile" /\ ops[o].res = "SizeExceeded"
    /\ \E o \in OpIds : ops[o].call.m = "writeFile" /\ ops[o].res = "ok"
    /\ \E p \in DOMAIN fs : IsInsideRoot(p) /\ fs[p].kind = "file"
                            /\ byteLength(fs[p].data) = maxFileSize
                            /\ fs[p].data \notin {"abc", "xyz"}
    /\ DOMAIN backups # {}

====
